---------------------------- MODULE Spec2Model ----------------------------
(***************************************************************************)
(* A model of picire's delta debugging engine.                             *)
(*                                                                         *)
(* The sequential engine is DD (picire/dd.py) with its collaborators: the  *)
(* splitters (picire/splitter.py), the iterators and CombinedIterator      *)
(* (src/picire/iterator.py), the outcome caches (picire/cache.py) and the  *)
(* stop callable LimitReduction (src/picire/limit_reduction.py).           *)
(*                                                                         *)
(* Python sequences are 0-based, TLA+ sequences 1-based: a Python index i  *)
(* is position i + 1 here; the indices the code computes (iterator values, *)
(* fvalue, complement_offset) keep their Python values.                    *)
(*                                                                         *)
(* The interpreter is modelled with assert statements enabled and with     *)
(* DEBUG logging disabled (the defaults).                                  *)
(***************************************************************************)
EXTENDS Integers, Sequences, FiniteSets, TLC

(***************************************************************************)
(* Bounds of the model.                                                    *)
(***************************************************************************)
\* The longest initial config of an arbitrary-tester reduction.
NAtoms == 3
\* The longest initial config when only the default strategies are explored.
NDeep == 5
\* The largest max_tests given to LimitReduction.
MaxTests == 2

(***************************************************************************)
(* Values.                                                                 *)
(***************************************************************************)
\* picire/outcome.py: the two members of the Outcome enum.
PASS == "PASS"
FAIL == "FAIL"
Outcome == {PASS, FAIL}
\* Python's None.
None == "None"
\* A tester's return value that is no member of Outcome (a str, a bool, ...).
INVALID == "INVALID"
\* A tester call that raises an exception instead of returning.
RAISE == "RAISE"

Min(a, b) == IF a <= b THEN a ELSE b
Max(a, b) == IF a >= b THEN a ELSE b
SetMin(S) == CHOOSE x \in S : \A y \in S : x <= y
SetMax(S) == CHOOSE x \in S : \A y \in S : x >= y

\* [c for s in subsets for c in s]
RECURSIVE Flatten(_)
Flatten(subsets) ==
    IF subsets = << >> THEN << >>
    ELSE Head(subsets) \o Flatten(Tail(subsets))

\* subsets[:i] + subsets[i + 1:], i a Python index.
WithoutIndex(subsets, i) ==
    SubSeq(subsets, 1, i) \o SubSeq(subsets, i + 2, Len(subsets))

\* config[start:stop], Python slice bounds.
Slice(config, start, stop) == SubSeq(config, start + 1, stop)

\* The prefixes of a config, the empty one and the config itself included.
Prefixes(config) == { SubSeq(config, 1, k) : k \in 0..Len(config) }

(***************************************************************************)
(* Splitters (picire/splitter.py).                                         *)
(***************************************************************************)
\* n = min(length, len(subsets) * self._n).  A splitter is a record
\* [name, inf, n]: inf says that self._n is float('inf'), n is self._n
\* otherwise.
SplitCount_FactorOne(length, k, sp) == Min(length, k)

SplitCount(length, k, sp) ==
    IF sp.inf THEN length ELSE Min(length, k * sp.n)

\* The loop of ZellerSplit.__call__ with the quotient rounded up:
\* stop = start + -(-(length - start) // (n - i)).
RECURSIVE ZellerLoop_RoundUp(_, _, _, _)
ZellerLoop_RoundUp(config, n, i, start) ==
    IF i >= n THEN << >>
    ELSE LET stop == start + ((Len(config) - start + (n - i) - 1) \div (n - i))
         IN  << Slice(config, start, stop) >>
               \o ZellerLoop_RoundUp(config, n, i + 1, stop)

\* The loop of ZellerSplit.__call__: chunk i is config[start:stop] with
\* stop = start + (length - start) // (n - i).
RECURSIVE ZellerLoop(_, _, _, _)
ZellerLoop(config, n, i, start) ==
    IF i >= n THEN << >>
    ELSE LET stop == start + ((Len(config) - start) \div (n - i))
         IN  << Slice(config, start, stop) >> \o ZellerLoop(config, n, i + 1, stop)

ZellerSplit(sp, subsets) ==
    LET config == Flatten(subsets)
        n == SplitCount(Len(config), Len(subsets), sp)
    IN  ZellerLoop(config, n, 0, 0)

\* BalancedSplit.__call__ with n = len(subsets) * self._n, not capped by the
\* length of config.
BalancedSplit_Uncapped(sp, subsets) ==
    LET config == Flatten(subsets)
        length == Len(config)
        n == IF sp.inf THEN length + 1 ELSE Len(subsets) * sp.n
    IN  [ j \in 1..n |->
            Slice(config, (length * (j - 1)) \div n, (length * j) \div n) ]

\* BalancedSplit.__call__: chunk i is config[length*i//n : length*(i+1)//n].
BalancedSplit(sp, subsets) ==
    LET config == Flatten(subsets)
        length == Len(config)
        n == SplitCount(length, Len(subsets), sp)
    IN  [ j \in 1..n |->
            Slice(config, (length * (j - 1)) \div n, (length * j) \div n) ]

\* self._split(subsets) of a DD object whose splitter is sp.
Split(sp, subsets) ==
    IF sp.name = "zeller" THEN ZellerSplit(sp, subsets)
    ELSE BalancedSplit(sp, subsets)

(***************************************************************************)
(* Iterators (src/picire/iterator.py).  A generator is modelled by the set *)
(* of values it has not yielded yet: forward yields the least of them,     *)
(* backward the greatest, random (a shuffled list) any of them, and skip   *)
(* starts with none.                                                       *)
(***************************************************************************)
IteratorNames == {"forward", "backward", "skip", "random"}

\* An iterator over range(n - 1): the last index is never yielded.
IterStart_OffByOne(name, n) == IF name = "skip" THEN {} ELSE 0..(n - 2)

\* The values iterator `name` is still to yield right after iterator(n).
IterStart(name, n) == IF name = "skip" THEN {} ELSE 0..(n - 1)

\* The values the iterator may yield next, `rem` being those still to come.
IterNext(name, rem) ==
    IF rem = {} THEN {}
    ELSE CASE name = "forward"  -> {SetMin(rem)}
           [] name = "backward" -> {SetMax(rem)}
           [] name = "random"   -> rem
           [] OTHER             -> {}

\* CombinedIterator.__call__ without its loops over the complement iterator.
CombinedNext_SubsetsOnly(it, remS, remC) ==
    { [value |-> i, remS |-> remS \ {i}, remC |-> remC] :
        i \in IterNext(it.subset_iterator, remS) }

\* CombinedIterator.__call__: the next yields of the combined generator, as
\* records [value, remS, remC]; value i >= 0 keeps subset i, value -i - 1
\* removes subset i.
CombinedNext(it, remS, remC) ==
    LET fromS == { [value |-> i, remS |-> remS \ {i}, remC |-> remC] :
                     i \in IterNext(it.subset_iterator, remS) }
        fromC == { [value |-> -i - 1, remS |-> remS, remC |-> remC \ {i}] :
                     i \in IterNext(it.complement_iterator, remC) }
    IN  IF it.subset_first
        THEN (IF fromS # {} THEN fromS ELSE fromC)
        ELSE (IF fromC # {} THEN fromC ELSE fromS)

(***************************************************************************)
(* Outcome caches (picire/cache.py).  The tree of ConfigCache._Entry nodes *)
(* is a function from the path of a node (the atoms from the root) to the  *)
(* node's result; its domain, the nodes that exist, is prefix-closed.      *)
(***************************************************************************)
\* ConfigCache.__init__ (and clear): self._root = self._Entry().
EmptyRoot == (<< >> :> None)

\* ConfigCache._evict(self._root, length): the nodes at depth `length` lose
\* their tails, so every node deeper than `length` is gone.
ConfigCacheEvict(root, length) ==
    [ p \in { q \in DOMAIN root : Len(q) <= length } |-> root[p] ]

\* The walk of ConfigCache.add with `p.result = result` inside its loop.
ConfigCacheStore_MarksPath(root, config, result) ==
    [ p \in DOMAIN root \cup Prefixes(config) |->
        IF p \in Prefixes(config) /\ p # << >> THEN result
        ELSE IF p \in DOMAIN root THEN root[p] ELSE None ]

\* The walk of ConfigCache.add: missing nodes on the path are created with
\* no result, the last node gets the result.
ConfigCacheStore(root, config, result) ==
    [ p \in DOMAIN root \cup Prefixes(config) |->
        IF p = config THEN result
        ELSE IF p \in DOMAIN root THEN root[p] ELSE None ]

\* ConfigCache.add
ConfigCacheAdd(c, root, config, result) ==
    LET stored == IF result = PASS \/ c.cache_fail
                  THEN ConfigCacheStore(root, config, result)
                  ELSE root
    IN  IF result = FAIL /\ c.evict_after_fail
        THEN ConfigCacheEvict(stored, Len(config))
        ELSE stored

\* ConfigCache.lookup
ConfigCacheLookup(root, config) ==
    IF config \in DOMAIN root THEN root[config] ELSE None

\* self._cache.add(config, result) for the cache object c of a DD.
CacheAdd(c, root, config, result) ==
    IF c.name = "none" THEN root
    ELSE ConfigCacheAdd(c, root, config, result)

\* self._cache.lookup(config)
CacheLookup(c, root, config) ==
    IF c.name = "none" THEN None
    ELSE ConfigCacheLookup(root, config)

\* ConcatTestBuilder.__call__: ''.join(self._content[x] for x in config),
\* _content the texts of the atoms, a text a sequence of characters.
RECURSIVE ConcatTestBuilder(_, _)
ConcatTestBuilder(texts, config) ==
    IF config = << >> THEN << >>
    ELSE texts[Head(config)] \o ConcatTestBuilder(texts, Tail(config))

\* ContentCache.add without `del self._container[c]`.
ContentCacheAdd_KeepsAll(c, container, texts, config, result) ==
    IF result = PASS \/ c.cache_fail
    THEN LET test_content == ConcatTestBuilder(texts, config)
         IN  [ t \in DOMAIN container \cup {test_content} |->
                 IF t = test_content THEN result ELSE container[t] ]
    ELSE container

\* ContentCache.add: _container maps a test content to its outcome.
ContentCacheAdd(c, container, texts, config, result) ==
    IF result = FAIL /\ ~c.cache_fail /\ ~c.evict_after_fail THEN container
    ELSE LET test_content == ConcatTestBuilder(texts, config)
             kept == IF result = PASS \/ c.cache_fail
                     THEN [ t \in DOMAIN container \cup {test_content} |->
                              IF t = test_content THEN result ELSE container[t] ]
                     ELSE container
         IN  IF result = FAIL /\ c.evict_after_fail
             THEN [ t \in { u \in DOMAIN kept : ~(Len(u) > Len(test_content)) } |->
                      kept[t] ]
             ELSE kept

\* ContentCache.lookup
ContentCacheLookup(container, texts, config) ==
    LET test_content == ConcatTestBuilder(texts, config)
    IN  IF test_content \in DOMAIN container THEN container[test_content] ELSE None

\* ContentHashCache._hash_content: the sha3_256 digest of the content, which
\* tells apart any two contents a cache ever sees.
hash_content(test_content) == << "sha3_256", test_content >>

\* ContentHashCache.add with ContentCache's `or self._cache_fail`.
ContentHashCacheAdd_CachesFail(c, container, texts, config, result) ==
    IF result = FAIL /\ ~c.cache_fail /\ ~c.evict_after_fail THEN container
    ELSE LET test_content == ConcatTestBuilder(texts, config)
             length == Len(test_content)
             h == hash_content(test_content)
             kept == IF result = PASS \/ c.cache_fail
                     THEN [ k \in DOMAIN container \cup {h} |->
                              IF k = h THEN [result |-> result, length |-> length]
                              ELSE container[k] ]
                     ELSE container
         IN  IF result = FAIL /\ c.evict_after_fail
             THEN [ k \in { u \in DOMAIN kept : ~(kept[u].length > length) } |->
                      kept[k] ]
             ELSE kept

\* ContentHashCache.add: _container maps a digest to (result, length);
\* cache_fail is not looked at.
ContentHashCacheAdd(c, container, texts, config, result) ==
    IF result = FAIL /\ ~c.evict_after_fail THEN container
    ELSE LET test_content == ConcatTestBuilder(texts, config)
             length == Len(test_content)
             h == hash_content(test_content)
             kept == IF result = PASS
                     THEN [ k \in DOMAIN container \cup {h} |->
                              IF k = h THEN [result |-> result, length |-> length]
                              ELSE container[k] ]
                     ELSE container
         IN  IF result = FAIL /\ c.evict_after_fail
             THEN [ k \in { u \in DOMAIN kept : ~(kept[u].length > length) } |->
                      kept[k] ]
             ELSE kept

\* ContentHashCache.lookup
ContentHashCacheLookup(container, texts, config) ==
    LET h == hash_content(ConcatTestBuilder(texts, config))
    IN  IF h \in DOMAIN container THEN container[h].result ELSE None

(***************************************************************************)
(* The stop callable (src/picire/limit_reduction.py).  A LimitReduction is *)
(* a record [kind, deadline, limited, max_tests]: kind is "none" when the  *)
(* DD object was given no stop callable, deadline says whether a deadline  *)
(* was given, limited whether max_tests was, max_tests is its value.       *)
(***************************************************************************)
\* LimitReduction.__call__ with the budget checked and taken from before
\* the deadline is looked at.
LimitReductionCall_BudgetFirst(stop, tests_left, expired) ==
    LET clocks == IF ~stop.deadline THEN {expired}
                  ELSE IF expired THEN {TRUE} ELSE {FALSE, TRUE}
    IN  { IF stop.limited /\ tests_left <= 0
          THEN [raised |-> TRUE, tests_left |-> tests_left, expired |-> e]
          ELSE [raised |-> stop.deadline /\ e,
                tests_left |-> IF stop.limited THEN tests_left - 1 ELSE tests_left,
                expired |-> e]
        : e \in clocks }

\* LimitReduction.__call__, as the set of its possible results: `expired`
\* says whether the clock was at or past the deadline at the last call (time
\* never runs backwards), `raised` whether ReductionStopped is raised.
LimitReductionCall(stop, tests_left, expired) ==
    LET clocks == IF ~stop.deadline THEN {expired}
                  ELSE IF expired THEN {TRUE} ELSE {FALSE, TRUE}
    IN  { IF stop.deadline /\ e
          THEN [raised |-> TRUE, tests_left |-> tests_left, expired |-> e]
          ELSE IF stop.limited
          THEN (IF tests_left <= 0
                THEN [raised |-> TRUE, tests_left |-> tests_left, expired |-> e]
                ELSE [raised |-> FALSE, tests_left |-> tests_left - 1, expired |-> e])
          ELSE [raised |-> FALSE, tests_left |-> tests_left, expired |-> e]
        : e \in clocks }

\* DD._check_stop: if self._stop: self._stop()
check_stop(stop, tests_left, expired) ==
    IF stop.kind = "none"
    THEN { [raised |-> FALSE, tests_left |-> tests_left, expired |-> expired] }
    ELSE LimitReductionCall(stop, tests_left, expired)

(***************************************************************************)
(* The reference testers of tests/test_api.py.                             *)
(***************************************************************************)
\* config_a, config_b, config_c: the content the indices of a config select.
RefAtoms == 8
content == [ x \in 1..RefAtoms |-> x ]

interesting_a(c) ==
    IF 7 \in c /\ 2 \notin c THEN FALSE
    ELSE IF 5 \in c /\ 8 \in c THEN TRUE
    ELSE FALSE

interesting_b(c) ==
    IF c = {} THEN FALSE
    ELSE IF \A x \in 1..8 : x \in c THEN TRUE
    ELSE FALSE

interesting_c(c) ==
    IF \A x \in {1, 2, 3, 4, 6, 8} : x \in c THEN TRUE ELSE FALSE

\* self.interesting of the CaseTest whose predicate is the one named `kind`.
interesting(kind, c) ==
    CASE kind = "a" -> interesting_a(c)
      [] kind = "b" -> interesting_b(c)
      [] OTHER      -> interesting_c(c)

\* CaseTest.__call__
CaseTest(kind, config) ==
    LET c == { content[config[k]] : k \in 1..Len(config) }
    IN  IF interesting(kind, c) THEN FAIL ELSE PASS

(***************************************************************************)
(* State.                                                                  *)
(***************************************************************************)
VARIABLES
    dd,                 \* the DD object: split, cache, config_iterator, dd_star, stop
    tester,             \* the tester given to DD: [kind, deterministic, reliable]
    known,              \* the answers the tester has given, by config
    pc,                 \* where DD.__call__ is, or how it ended
    config,             \* __call__'s config
    subsets,            \* __call__'s subsets
    complement_offset,  \* __call__'s complement_offset
    changed,            \* __call__'s changed
    iter_cnt,           \* __call__'s iter_cnt
    run,                \* __call__'s run
    remS,               \* _reduce_config's iterator: subset values to come
    remC,               \* _reduce_config's iterator: complement values to come
    root,               \* the cache: ConfigCache._root
    tests_left,         \* LimitReduction._tests_left
    expired,            \* whether the clock has passed LimitReduction's deadline
    result,             \* the value returned, or the result of the exception raised
    call,               \* which call of the DD object this is (1 or 2)
    initial,            \* the config this call was given
    first,              \* what the first call returned
    testCalls,          \* tester invocations of this call
    stopCalls,          \* invocations of the stop callable that returned normally
    hits,               \* candidates of this call whose outcome came from the cache
    smallest,           \* << c >>, c the shortest config this call saw FAIL; << >> if none
    last,               \* what the last step did: [op, config, id, outcome]
    container,          \* ContentCache._container, ContentHashCache._container
    test_builder,       \* the cache's _test_builder: ConcatTestBuilder._content
    stored,             \* the outcomes stored in the cache and not evicted, by config
    cleared,            \* whether clear() was called and no add since
    last_fail,          \* << c >>, c the config of the last add(c, FAIL) if no
                        \* add has stored an entry since; << >> otherwise
    ops,                \* add and clear operations on the cache so far
    jobs,               \* the loop bodies started by Loop.do, in dispatch order
    fail_index,         \* AbstractParallelDD._fail_index.value
    shared_break,       \* Loop._break.value
    split_subsets,      \* __call__'s next_subsets: what self._split(subsets) returned
    real_offset,        \* complement_offset as abstract_dd.py keeps it: [num, den]
    lock,               \* SharedCache._lock: 0, or the caller that holds it
    slots,              \* Loop._slots and Loop._procs, by slot: [slot, proc]
    yielded             \* what a config iterator has yielded so far

vars == << dd, tester, known, pc, config, subsets, complement_offset, changed,
           iter_cnt, run, remS, remC, root, tests_left, expired, result, call,
           initial, first, testCalls, stopCalls, hits,
           smallest, last, container, test_builder, stored, cleared,
           last_fail, ops, jobs, fail_index, shared_break,
           split_subsets, real_offset, lock, slots, yielded >>

\* The state of the parts that are modelled on their own: the result of a
\* split before it replaces subsets, the offset of abstract_dd.py, the lock
\* of the shared cache, the slots of a loop and the values of an iterator.
others == << split_subsets, real_offset, lock, slots, yielded >>

\* Their values where these parts are not in use.
NoOthers ==
    /\ split_subsets = << >>
    /\ real_offset = [num |-> 0, den |-> 1]
    /\ lock = 0
    /\ slots = << >>
    /\ yielded = << >>

\* The state of a cache used on its own, and of a parallel loop: what the
\* sequential engine does not touch.
aside == << container, test_builder, stored, cleared, last_fail, ops,
            jobs, fail_index, shared_break, others >>

engine == << config, subsets, complement_offset, changed, iter_cnt, run >>

\* How __call__ can end: it returns, or one of these exceptions leaves it.
Raised == {"ReductionStopped", "ReductionError", "AssertionError", "Exception"}
Ended == {"done"} \cup Raised

(***************************************************************************)
(* The tester.  A tester of kind "any" is an arbitrary callable: its       *)
(* answer to a config is chosen when the config is first tested, and a     *)
(* deterministic tester repeats in `known` the answer it gave before.  An  *)
(* unreliable tester may also return a value that is no Outcome, or raise. *)
(***************************************************************************)
TesterAnswers(cfg) ==
    IF tester.kind # "any" THEN {CaseTest(tester.kind, cfg)}
    ELSE IF tester.deterministic /\ cfg \in DOMAIN known THEN {known[cfg]}
    ELSE IF tester.reliable THEN Outcome
    ELSE Outcome \cup {INVALID, RAISE}

\* `known` after the tester answered cfg; what a tester that is not
\* deterministic answered says nothing about its next answer.
Remember(cfg, answer) ==
    IF tester.deterministic
    THEN [ c \in DOMAIN known \cup {cfg} |->
             IF c = cfg THEN answer ELSE known[c] ]
    ELSE known

\* Some tester that agrees with every answer given so far returns FAIL on
\* cfg: an answer never asked for is not constrained.
MayFail(cfg) == cfg \notin DOMAIN known \/ known[cfg] = FAIL


(***************************************************************************)
(* The sequential engine (picire/dd.py).                                   *)
(***************************************************************************)
\* DD._lookup_cache finding nothing, whatever the cache holds.
lookup_cache_Miss(cfg) == None

\* DD._lookup_cache
lookup_cache(cfg) == CacheLookup(dd.cache, root, cfg)

\* DD._test_config without `if 'assert' not in config_id`: every outcome is
\* added to the cache.
test_config_AlwaysAdds(cfg, config_id, answer) ==
    IF answer = RAISE
    THEN [raised |-> TRUE, outcome |-> None, root |-> root]
    ELSE [raised |-> FALSE, outcome |-> answer,
          root |-> CacheAdd(dd.cache, root, cfg, answer)]

\* DD._test_config with `return Outcome.FAIL` for `return outcome`.
test_config_ReturnsFail(cfg, config_id, answer) ==
    IF answer = RAISE
    THEN [raised |-> TRUE, outcome |-> None, root |-> root]
    ELSE [raised |-> FALSE, outcome |-> FAIL,
          root |-> IF config_id.dir = "assert" THEN root
                   ELSE CacheAdd(dd.cache, root, cfg, answer)]

\* DD._test_config, the tester answering `answer`: the outcome is added to
\* the cache unless 'assert' is in the config id, and returned as it is.
test_config(cfg, config_id, answer) ==
    IF answer = RAISE
    THEN [raised |-> TRUE, outcome |-> None, root |-> root]
    ELSE [raised |-> FALSE, outcome |-> answer,
          root |-> IF config_id.dir = "assert" THEN root
                   ELSE CacheAdd(dd.cache, root, cfg, answer)]

\* assert self._test_config(config, (f'r{run}', 'assert')) is Outcome.FAIL
AssertPasses(outcome) == outcome = FAIL

\* Lines 136-143 with `i = -i - 1`: the complement index is not shifted by
\* complement_offset.
Candidate_NoOffset(i) ==
    LET n == Len(subsets) IN
    IF i >= 0
    THEN [config_id |-> [run |-> run, dir |-> "s", index |-> i],
          config_set |-> subsets[i + 1],
          i |-> i]
    ELSE LET k == -i - 1
         IN  [config_id |-> [run |-> run, dir |-> "c", index |-> k],
              config_set |-> Flatten(WithoutIndex(subsets, k)),
              i |-> -k - 1]

\* The body of _reduce_config's loop up to the lookup (lines 135-142): the
\* candidate of iterator value i, and the value fvalue takes if it fails.
Candidate(i) ==
    LET n == Len(subsets) IN
    IF i >= 0
    THEN [config_id |-> [run |-> run, dir |-> "s", index |-> i],
          config_set |-> subsets[i + 1],
          i |-> i]
    ELSE LET k == (-i - 1 + complement_offset) % n
         IN  [config_id |-> [run |-> run, dir |-> "c", index |-> k],
              config_set |-> Flatten(WithoutIndex(subsets, k)),
              i |-> -k - 1]

\* `if outcome is Outcome.PASS` for the test of line 149.
IsFail_Pass(outcome) == outcome = PASS

\* if outcome is Outcome.FAIL: fvalue = i; break
IsFail(outcome) == outcome = FAIL

\* Lines 155-164 with `return ..., -fvalue` for a complement hit.
ReduceReturn_OffsetAfter(fvalue) ==
    LET n == Len(subsets) IN
    IF fvalue < 0
    THEN [found |-> TRUE,
          next_subsets |-> WithoutIndex(subsets, -fvalue - 1),
          complement_offset |-> -fvalue]
    ELSE IF fvalue < n
    THEN [found |-> TRUE,
          next_subsets |-> << subsets[fvalue + 1] >>,
          complement_offset |-> 0]
    ELSE [found |-> FALSE,
          next_subsets |-> << >>,
          complement_offset |-> complement_offset]

\* The end of _reduce_config (lines 155-164): what it returns for fvalue.
ReduceReturn(fvalue) ==
    LET n == Len(subsets) IN
    IF fvalue < 0
    THEN [found |-> TRUE,
          next_subsets |-> WithoutIndex(subsets, -fvalue - 1),
          complement_offset |-> -fvalue - 1]
    ELSE IF fvalue < n
    THEN [found |-> TRUE,
          next_subsets |-> << subsets[fvalue + 1] >>,
          complement_offset |-> 0]
    ELSE [found |-> FALSE,
          next_subsets |-> << >>,
          complement_offset |-> complement_offset]

\* complement_offset = (complement_offset * len(next_subsets)) // len(subsets)
RescaleOffset(offset, next_len, len) == (offset * next_len) \div len

\* Lines 87-90 with `e.result` the config the call was given.
StoppedResult_Initial == initial

\* Lines 87-90: except ReductionStopped as e: e.result = config; raise
StoppedResult == config

\* The shortest config seen FAIL, after cfg was seen FAIL.
Observe(cfg) ==
    IF smallest = << >> \/ Len(cfg) < Len(smallest[1]) THEN << cfg >>
    ELSE smallest

\* Lines 115-119 with `if not self._dd_star: break` for the test of line 115.
EndIteration_IgnoresChanged ==
    IF ~dd.dd_star
    THEN /\ pc' = "done"
         /\ result' = config
         /\ iter_cnt' = iter_cnt
    ELSE /\ pc' = "iteration"
         /\ result' = result
         /\ iter_cnt' = iter_cnt + 1

\* Lines 115-119 with `break` whatever dd_star and changed are.
EndIteration_Once ==
    /\ pc' = "done"
    /\ result' = config
    /\ iter_cnt' = iter_cnt

\* Lines 115-119: the run loop was left by break.
EndIteration ==
    IF ~dd.dd_star \/ ~changed
    THEN /\ pc' = "done"
         /\ result' = config
         /\ iter_cnt' = iter_cnt
    ELSE /\ pc' = "iteration"
         /\ result' = result
         /\ iter_cnt' = iter_cnt + 1

\* Lines 60-65 without `complement_offset = 0`.
BeginIteration_KeepsOffset ==
    /\ pc = "iteration"
    /\ changed' = FALSE
    /\ subsets' = << config >>
    /\ complement_offset' = complement_offset
    /\ run' = 0
    /\ pc' = "run"
    /\ last' = [op |-> "iteration", config |-> config,
                id |-> [run |-> 0, dir |-> "none", index |-> 0], outcome |-> None]
    /\ UNCHANGED << aside, dd, tester, known, config, iter_cnt, remS, remC, root,
                    tests_left, expired, result, call, initial, first,
                    testCalls, stopCalls, hits, smallest >>

\* Lines 60-65: an iteration of the outer loop begins.
BeginIteration ==
    /\ pc = "iteration"
    /\ changed' = FALSE
    /\ subsets' = << config >>
    /\ complement_offset' = 0
    /\ run' = 0
    /\ pc' = "run"
    /\ last' = [op |-> "iteration", config |-> config,
                id |-> [run |-> 0, dir |-> "none", index |-> 0], outcome |-> None]
    /\ UNCHANGED << aside, dd, tester, known, config, iter_cnt, remS, remC, root,
                    tests_left, expired, result, call, initial, first,
                    testCalls, stopCalls, hits, smallest >>

\* Lines 67-83: a run begins with the re-check of config; then the run loop
\* is left (config has fewer than 2 atoms) or _reduce_config is entered and
\* its iterator created.
BeginRun ==
    /\ pc = "run"
    /\ \E answer \in TesterAnswers(config) :
         LET id == [run |-> run, dir |-> "assert", index |-> 0]
             t == test_config(config, id, answer)
             split == IF Len(subsets) < 2 THEN Split(dd.split, subsets)
                      ELSE subsets
         IN  /\ known' = Remember(config, answer)
             /\ testCalls' = testCalls + 1
             /\ root' = t.root
             /\ last' = [op |-> "assert", config |-> config, id |-> id,
                         outcome |-> answer]
             /\ smallest' = IF answer = FAIL THEN Observe(config) ELSE smallest
             /\ IF t.raised
                THEN /\ pc' = "Exception"
                     /\ result' = None
                     /\ UNCHANGED << subsets, iter_cnt, remS, remC >>
                ELSE IF ~AssertPasses(t.outcome)
                THEN /\ pc' = "AssertionError"
                     /\ result' = None
                     /\ UNCHANGED << subsets, iter_cnt, remS, remC >>
                ELSE IF Len(config) < 2
                THEN /\ EndIteration
                     /\ UNCHANGED << subsets, remS, remC >>
                ELSE /\ subsets' = split
                     /\ remS' = IterStart(dd.config_iterator.subset_iterator, Len(split))
                     /\ remC' = IterStart(dd.config_iterator.complement_iterator, Len(split))
                     /\ pc' = "reduce"
                     /\ UNCHANGED << result, iter_cnt >>
    /\ UNCHANGED << aside, dd, tester, config, complement_offset, changed, run,
                    tests_left, expired, call, initial, first, stopCalls, hits >>

\* Lines 149-151 without `fvalue = i; break`: the loop goes on after a FAIL.
AfterOutcome_GoesOn(y, cand, outcome) ==
    /\ remS' = y.remS
    /\ remC' = y.remC
    /\ UNCHANGED << engine, pc, result, smallest >>

\* Lines 149-151 and 95-101 for a candidate whose outcome is known: on FAIL
\* _reduce_config returns and the run ends reduced, otherwise the loop of
\* _reduce_config goes on.
AfterOutcome(y, cand, outcome) ==
    IF IsFail(outcome)
    THEN LET r == ReduceReturn(cand.i)
         IN  /\ changed' = TRUE
             /\ subsets' = r.next_subsets
             /\ config' = Flatten(r.next_subsets)
             /\ complement_offset' = r.complement_offset
             /\ run' = run + 1
             /\ pc' = "run"
             /\ remS' = {}
             /\ remC' = {}
             /\ smallest' = Observe(cand.config_set)
             /\ UNCHANGED << iter_cnt, result >>
    ELSE /\ remS' = y.remS
         /\ remC' = y.remC
         /\ UNCHANGED << engine, pc, result, smallest >>

\* One pass of the loop of _reduce_config (lines 134-151), with the handlers
\* of lines 87-93 when it raises.
ReduceStep ==
    /\ pc = "reduce"
    /\ \E y \in CombinedNext(dd.config_iterator, remS, remC) :
         LET cand == Candidate(y.value)
             cached == lookup_cache(cand.config_set)
         IN  IF cached # None
             THEN /\ AfterOutcome(y, cand, cached)
                  /\ last' = [op |-> "cache", config |-> cand.config_set,
                              id |-> cand.config_id, outcome |-> cached]
                  /\ UNCHANGED << known, root, tests_left, expired, testCalls,
                                  stopCalls >>
                  /\ hits' = hits + 1
             ELSE \E st \in check_stop(dd.stop, tests_left, expired) :
                    /\ tests_left' = st.tests_left
                    /\ expired' = st.expired
                    /\ IF st.raised
                       THEN /\ pc' = "ReductionStopped"
                            /\ result' = StoppedResult
                            /\ last' = [op |-> "stop", config |-> cand.config_set,
                                        id |-> cand.config_id, outcome |-> None]
                            /\ UNCHANGED << engine, remS, remC, known, root,
                                            testCalls, stopCalls, hits, smallest >>
                       ELSE \E answer \in TesterAnswers(cand.config_set) :
                              LET t == test_config(cand.config_set, cand.config_id, answer)
                              IN  /\ known' = Remember(cand.config_set, answer)
                                  /\ testCalls' = testCalls + 1
                                  /\ stopCalls' = IF dd.stop.kind = "none" THEN stopCalls
                                                  ELSE stopCalls + 1
                                  /\ hits' = hits
                                  /\ root' = t.root
                                  /\ last' = [op |-> "test", config |-> cand.config_set,
                                              id |-> cand.config_id, outcome |-> answer]
                                  /\ IF t.raised
                                     THEN /\ pc' = "ReductionError"
                                          /\ result' = config
                                          /\ UNCHANGED << engine, remS, remC, smallest >>
                                     ELSE AfterOutcome(y, cand, t.outcome)
    /\ UNCHANGED << aside, dd, tester, call, initial, first >>

\* _reduce_config's iterator is exhausted: it returns (None, complement_offset)
\* and lines 103-113 refine the partition or leave the run loop.
ReduceExhausted ==
    /\ pc = "reduce"
    /\ CombinedNext(dd.config_iterator, remS, remC) = {}
    /\ LET r == ReduceReturn(Len(subsets))
           next_subsets == Split(dd.split, subsets)
       IN  IF Len(subsets) < Len(config)
           THEN /\ subsets' = next_subsets
                /\ complement_offset' =
                     RescaleOffset(r.complement_offset, Len(next_subsets), Len(subsets))
                /\ run' = run + 1
                /\ pc' = "run"
                /\ UNCHANGED << iter_cnt, result >>
           ELSE /\ EndIteration
                /\ UNCHANGED << subsets, complement_offset, run >>
    /\ last' = [op |-> "exhausted", config |-> config,
                id |-> [run |-> run, dir |-> "none", index |-> 0], outcome |-> None]
    /\ UNCHANGED << aside, dd, tester, known, config, changed, remS, remC, root,
                    tests_left, expired, call, initial, first, testCalls,
                    stopCalls, hits, smallest >>

\* The config a call returned is reduced again with the same strategies and
\* tester: by the same DD object, or by a new one with a new cache and a new
\* stop callable.
CallAgain ==
    /\ pc = "done"
    /\ call = 1
    /\ call' = 2
    /\ first' = result
    /\ initial' = result
    /\ config' = result
    /\ pc' = "iteration"
    /\ iter_cnt' = 0
    /\ testCalls' = 0
    /\ stopCalls' = 0
    /\ hits' = 0
    /\ smallest' = << >>
    /\ \E fresh \in BOOLEAN :
         /\ root' = IF fresh THEN EmptyRoot ELSE root
         /\ tests_left' = IF fresh THEN dd.stop.max_tests ELSE tests_left
    /\ last' = [op |-> "call", config |-> result,
                id |-> [run |-> 0, dir |-> "none", index |-> 0], outcome |-> None]
    /\ UNCHANGED << aside, dd, tester, known, subsets, complement_offset, changed, run,
                    remS, remC, expired, result >>

\* One call of a DD object.
Next == BeginIteration \/ BeginRun \/ ReduceStep \/ ReduceExhausted

\* A call, and a second call on what the first returned.
NextAgain == Next \/ CallAgain

(***************************************************************************)
(* Initial states: a DD object is constructed and called.                  *)
(***************************************************************************)
Splitters ==
    { [name |-> nm, inf |-> FALSE, n |-> 2] : nm \in {"zeller", "balanced"} }
    \cup { [name |-> nm, inf |-> TRUE, n |-> 0] : nm \in {"zeller", "balanced"} }

Caches ==
    { [name |-> "none", cache_fail |-> FALSE, evict_after_fail |-> TRUE] }
    \cup [name : {"config"}, cache_fail : BOOLEAN, evict_after_fail : BOOLEAN]

Iterators ==
    [subset_first : BOOLEAN, subset_iterator : IteratorNames,
     complement_iterator : IteratorNames]

NoStop == [kind |-> "none", deadline |-> FALSE, limited |-> FALSE, max_tests |-> 0]

\* LimitReduction(max_tests=m) and LimitReduction(deadline=..., max_tests=m)
Limits ==
    { [kind |-> "limit", deadline |-> d, limited |-> TRUE, max_tests |-> m] :
        d \in BOOLEAN, m \in 0..MaxTests }

\* DD.__init__ and the entry of __call__ with a config of `len` atoms.
Start(DDs, Testers, Lengths) ==
    /\ dd \in DDs
    /\ tester \in Testers
    /\ \E len \in Lengths : config = [ i \in 1..len |-> i ]
    /\ initial = config
    /\ known = << >>
    /\ pc = "iteration"
    /\ subsets = << >>
    /\ complement_offset = 0
    /\ changed = FALSE
    /\ iter_cnt = 0
    /\ run = 0
    /\ remS = {}
    /\ remC = {}
    /\ root = EmptyRoot
    /\ tests_left = dd.stop.max_tests
    /\ expired = FALSE
    /\ result = None
    /\ call = 1
    /\ first = << >>
    /\ testCalls = 0
    /\ stopCalls = 0
    /\ hits = 0
    /\ container = << >>
    /\ test_builder = << >>
    /\ stored = << >>
    /\ cleared = FALSE
    /\ NoOthers
    /\ last_fail = << >>
    /\ ops = 0
    /\ jobs = << >>
    /\ fail_index = -1
    /\ shared_break = 0
    /\ smallest = << >>
    /\ last = [op |-> "init", config |-> << >>,
               id |-> [run |-> 0, dir |-> "none", index |-> 0], outcome |-> None]

\* NoCache() and ConfigCache() with its defaults.
DefaultCaches ==
    { [name |-> "config", cache_fail |-> FALSE, evict_after_fail |-> TRUE],
      [name |-> "none", cache_fail |-> FALSE, evict_after_fail |-> TRUE] }

\* Whether an iterator of the strategy is random.
Shuffles(d) ==
    \/ d.config_iterator.subset_iterator = "random"
    \/ d.config_iterator.complement_iterator = "random"

\* The strategies a DD is constructed with, no stop callable: every
\* splitter, cache, iterator and order; the random iterators, whose orders
\* multiply the runs, with the caches of DefaultCaches only.
AllStrategies ==
    { d \in [split : Splitters, cache : Caches, config_iterator : Iterators,
              dd_star : BOOLEAN, stop : {NoStop}] :
        Shuffles(d) => d.cache \in DefaultCaches }

\* DD's defaults (ZellerSplit(), ConfigCache(), CombinedIterator()), with
\* and without dd_star, with and without a cache.
DefaultStrategies ==
    [split : { [name |-> "zeller", inf |-> FALSE, n |-> 2] },
     cache : { [name |-> "config", cache_fail |-> FALSE, evict_after_fail |-> TRUE],
               [name |-> "none", cache_fail |-> FALSE, evict_after_fail |-> TRUE] },
     config_iterator : { [subset_first |-> TRUE, subset_iterator |-> "forward",
                          complement_iterator |-> "forward"] },
     dd_star : BOOLEAN, stop : {NoStop}]

Deterministic == [kind |-> "any", deterministic |-> TRUE, reliable |-> TRUE]

\* Every strategy, an arbitrary deterministic tester that returns outcomes,
\* no stop callable.
Init == Start(AllStrategies, {Deterministic}, 0..NAtoms)

Spec == Init /\ [][Next]_vars


\* Every strategy with a LimitReduction as stop callable.
InitLimit ==
    Start([split : Splitters, cache : Caches, config_iterator : Iterators,
           dd_star : BOOLEAN, stop : Limits],
          {Deterministic}, 0..NAtoms)

SpecLimit == InitLimit /\ [][Next]_vars

\* The default strategies with testers that need be neither deterministic
\* nor reliable.
InitFault ==
    Start(DefaultStrategies,
          [kind : {"any"}, deterministic : BOOLEAN, reliable : BOOLEAN],
          0..NAtoms)

SpecFault == InitFault /\ [][Next]_vars

\* The combinations tests/test_api.py draws its cases from: both splitters,
\* granularity 2 and inf, either order, subset iterator forward, backward or
\* skip, complement iterator forward or backward, with and without cache.
RefStrategies ==
    [split : Splitters,
     cache : { [name |-> "config", cache_fail |-> FALSE, evict_after_fail |-> TRUE],
               [name |-> "none", cache_fail |-> FALSE, evict_after_fail |-> TRUE] },
     config_iterator :
         [subset_first : BOOLEAN,
          subset_iterator : {"forward", "backward", "skip"},
          complement_iterator : {"forward", "backward"}],
     dd_star : BOOLEAN,
     stop : {NoStop}]

\* CaseTest(interesting_a, config_a), ..., CaseTest(interesting_c, config_c)
RefTesters ==
    [kind : {"a", "b", "c"}, deterministic : {TRUE}, reliable : {TRUE}]

\* A reference case: list(range(len(config_a))) is reduced.
InitRef == Start(RefStrategies, RefTesters, {RefAtoms})

SpecRef == InitRef /\ [][Next]_vars

\* Calls with an arbitrary deterministic tester, and the reference cases.
InitHit == Init \/ InitRef

SpecHit == InitHit /\ [][Next]_vars

\* Strategies of every kind: both splitters, every iterator, either order,
\* with and without cache, dd_star and a LimitReduction with a deadline.
SampleStrategies ==
    [split : { [name |-> "zeller", inf |-> FALSE, n |-> 2],
               [name |-> "balanced", inf |-> TRUE, n |-> 0] },
     cache : { [name |-> "config", cache_fail |-> FALSE, evict_after_fail |-> TRUE],
               [name |-> "none", cache_fail |-> FALSE, evict_after_fail |-> TRUE] },
     config_iterator :
         { [subset_first |-> TRUE, subset_iterator |-> "forward",
            complement_iterator |-> "forward"],
           [subset_first |-> FALSE, subset_iterator |-> "backward",
            complement_iterator |-> "backward"],
           [subset_first |-> TRUE, subset_iterator |-> "random",
            complement_iterator |-> "random"],
           [subset_first |-> TRUE, subset_iterator |-> "skip",
            complement_iterator |-> "forward"] },
     dd_star : BOOLEAN,
     stop : { NoStop,
              [kind |-> "limit", deadline |-> TRUE, limited |-> TRUE,
               max_tests |-> MaxTests] }]

\* The sample's strategies whose iterators are not random, no stop callable.
DeepStrategies ==
    { d \in SampleStrategies :
        d.stop = NoStop /\ d.config_iterator.subset_iterator # "random" }

\* Those strategies on longer configs, each result reduced again.
InitAgain == Start(DeepStrategies, {Deterministic}, 0..NDeep)

SpecAgain == InitAgain /\ [][NextAgain]_vars

\* DD(test) with every default of DD.__init__.
DefaultDD ==
    { d \in DefaultStrategies : ~d.dd_star /\ d.cache.name = "config" }

\* The sample with a deterministic tester, and DD's defaults with a tester
\* that may return what is no Outcome, or raise.
InitFair ==
    \/ Start(SampleStrategies, {Deterministic}, 0..NAtoms)
    \/ Start(DefaultDD,
             { [kind |-> "any", deterministic |-> TRUE, reliable |-> FALSE] },
             0..NAtoms)

\* A call that is let run: __call__ is sequential code and the tester's
\* calls terminate, so a step that can be taken is taken.
FairSpec == InitFair /\ [][Next]_vars /\ WF_vars(Next)


(***************************************************************************)
(* Properties.                                                             *)
(***************************************************************************)
\* The tester answered cfg with outcome o.
Tested(cfg, o) == cfg \in DOMAIN known /\ known[cfg] = o

\* cfg without the atom at position k.
WithoutAtom(cfg, k) == SubSeq(cfg, 1, k - 1) \o SubSeq(cfg, k + 1, Len(cfg))

\* C1: for a deterministic tester and an initial config on which it returns
\* FAIL, the tester returns FAIL on the config DD.__call__ returns, whatever
\* the splitter, the iterators, the cache and dd_star.
C1_ReturnedConfigFails ==
    (pc = "done" /\ tester.deterministic /\ Tested(initial, FAIL))
        => Tested(result, FAIL)

\* A call returned a config shorter than the one it was given.
C1_Witness ==
    /\ pc = "done"
    /\ Tested(initial, FAIL)
    /\ Len(result) < Len(initial)
    /\ Len(result) >= 2

\* Both iterators enumerate every index.
EnumeratesAll ==
    /\ dd.config_iterator.subset_iterator # "skip"
    /\ dd.config_iterator.complement_iterator # "skip"

\* C2 as stated: the returned config is 1-minimal, the tester returns PASS
\* on it with any single atom removed.
C2_OneMinimal_AsStated ==
    (pc = "done" /\ tester.deterministic /\ Tested(initial, FAIL) /\ EnumeratesAll)
        => \A k \in 1..Len(result) : ~MayFail(WithoutAtom(result, k))

\* C2: a returned config of at least two atoms is 1-minimal: the tester
\* returned PASS on it with any single atom removed (the empty config, what
\* is left of a one-atom result, is never tested).
C2_OneMinimal ==
    (pc = "done" /\ tester.deterministic /\ Tested(initial, FAIL) /\ EnumeratesAll
       /\ Len(result) >= 2)
        => \A k \in 1..Len(result) : Tested(WithoutAtom(result, k), PASS)

\* A reduced config of two atoms or more was returned as 1-minimal.
C2_Witness ==
    /\ pc = "done"
    /\ EnumeratesAll
    /\ Len(result) >= 2
    /\ Len(result) < Len(initial)
    /\ \A k \in 1..Len(result) : Tested(WithoutAtom(result, k), PASS)


\* A natural number that orders the states of a call: the length of config
\* first, then whether the iteration has reduced and where the call is, then
\* the number of subsets, then the candidates _reduce_config has yet to try.
Rank ==
    IF pc \in Ended THEN 0
    ELSE LET N == Len(initial) + 1
             L == Len(config)
             C == IF changed THEN 1 ELSE 0
             E == IF pc = "iteration" THEN 1 + 2 * C ELSE 4 * C
             G == IF pc = "iteration" THEN 0 ELSE L - Len(subsets) + 1
             R == IF pc = "run" THEN 2 * N + 2
                  ELSE IF pc = "reduce" THEN 1 + Cardinality(remS) + Cardinality(remC)
                  ELSE 1
         IN  ((L * 5 + E) * (N + 1) + G) * (2 * N + 3) + R

\* C3: a call terminates, it returns or raises: every step takes it to a
\* state of smaller rank (a run shortens config, or increases the number of
\* subsets, or ends the run loop; an iteration follows only one that
\* shortened config), and a call that is let run reaches its end.
C3_Terminates == [][Rank' < Rank]_vars /\ <>(pc \in Ended)

\* A dd-star call returned after a second iteration, the first having
\* reduced config to two atoms or more.
C3_Witness ==
    /\ pc = "done"
    /\ iter_cnt >= 1
    /\ Len(config) < Len(initial)
    /\ Len(config) >= 2

\* C5: with dd_star a call returns only after an iteration in which nothing
\* was reduced, every iteration starting from subsets = [config] and
\* complement_offset = 0; without dd_star it returns after one iteration.
C5_DdStarFixpoint ==
    /\ (pc = "done" /\ dd.dd_star) => ~changed
    /\ (pc = "done" /\ ~dd.dd_star) => iter_cnt = 0
    /\ (pc = "run" /\ run = 0) =>
           (subsets = << config >> /\ complement_offset = 0 /\ ~changed)

\* A dd-star call returned after an iteration that reduced nothing, which
\* followed one that reduced.
C5_Witness ==
    /\ pc = "done"
    /\ dd.dd_star
    /\ iter_cnt >= 1
    /\ ~changed
    /\ Len(result) < Len(initial)


\* C4 as stated: for a deterministic tester, reducing again what a call
\* returned returns it unchanged, whatever the engine configuration.
C4_Idempotent_AsStated ==
    (pc = "done" /\ call = 2 /\ tester.deterministic) => result = first

\* C4: with dd_star, for a deterministic tester, reducing again what a call
\* returned returns it unchanged.
C4_Idempotent ==
    (pc = "done" /\ call = 2 /\ tester.deterministic /\ dd.dd_star)
        => result = first

\* A dd-star call reduced its config to two atoms or more, and the second
\* call returned them.
C4_Witness ==
    /\ pc = "done"
    /\ call = 2
    /\ dd.dd_star
    /\ Len(first) >= 2
    /\ \E c \in DOMAIN known : Len(c) > Len(first) /\ known[c] = FAIL
    /\ result = first


\* C7: when the stop callable raises ReductionStopped, the exception leaves
\* __call__ with the current config as its result, the smallest config seen
\* FAIL so far (the initial config with max_tests = 0), and the candidate
\* that was pending is not sent to the tester.
C7_StoppedCarriesConfig ==
    [][ pc' = "ReductionStopped" =>
          /\ dd.stop.kind = "limit"
          /\ config' = config
          /\ result' = config
          /\ smallest' = << config >>
          /\ Tested(config, FAIL)
          /\ (dd.stop.max_tests = 0 => result' = initial)
          /\ testCalls' = testCalls
          /\ known' = known ]_vars

\* The limit stopped a call that had reduced its config, with candidates of
\* the run still to try.
C7_Witness ==
    /\ pc = "ReductionStopped"
    /\ last.op = "stop"
    /\ Len(result) < Len(initial)
    /\ Len(result) >= 2
    /\ tests_left = 0

\* C8 as stated: with LimitReduction(max_tests=N) a call invokes the tester
\* at most N times.
C8_TestsWithinLimit ==
    dd.stop.limited => testCalls <= dd.stop.max_tests

\* C9 as stated: a tester that raises or returns what is no Outcome ends the
\* call with ReductionError carrying the current config.
C9_FaultIsReductionError ==
    (last.op \in {"assert", "test"} /\ last.outcome \in {INVALID, RAISE})
        => (pc = "ReductionError" /\ result = config)

\* C10 as stated: a re-check of config that does not return FAIL ends the
\* call with ReductionError carrying the current config.
C10_RecheckIsReductionError ==
    (last.op = "assert" /\ last.outcome \in {PASS, INVALID})
        => (pc = "ReductionError" /\ result = config)


\* expect_a, expect_b, expect_c
Expected(kind) ==
    CASE kind = "a" -> << 5, 8 >>
      [] kind = "b" -> << 1, 2, 3, 4, 5, 6, 7, 8 >>
      [] OTHER      -> << 1, 2, 3, 4, 6, 8 >>

\* [config[x] for x in output]
Output == [ k \in 1..Len(result) |-> content[result[k]] ]

\* The atoms of `expected` are the only 1-minimal content the predicate named
\* `kind` is interesting on.
OnlyOneMinimal(kind, expected) ==
    \A S \in SUBSET { content[x] : x \in 1..RefAtoms } :
        (interesting(kind, S) /\ \A x \in S : ~interesting(kind, S \ {x}))
            => S = { expected[k] : k \in 1..Len(expected) }

AlwaysFails == \A c \in DOMAIN known : c # << >> => known[c] = FAIL

\* Both iterators are skip: _reduce_config has no candidate.
SkipsAll ==
    /\ dd.config_iterator.subset_iterator = "skip"
    /\ dd.config_iterator.complement_iterator = "skip"

\* C19 as stated: when the tester returns FAIL on every config that is not
\* empty, a call on a config that is not empty returns one atom.
C19_AllFailOneAtom_AsStated ==
    (pc = "done" /\ Len(initial) >= 1 /\ AlwaysFails) => Len(result) = 1

\* C19: when the tester returns FAIL on every config that is not empty and
\* an iterator of the DD is not skip, a call on a config that is not empty
\* returns one atom of it; with both iterators skip it returns the config.
C19_AllFailOneAtom ==
    (pc = "done" /\ Len(initial) >= 1 /\ AlwaysFails) =>
        IF SkipsAll THEN result = initial
        ELSE Len(result) = 1 /\ \E k \in 1..Len(initial) : result = << initial[k] >>

\* A config of three atoms was reduced to one atom, every answer FAIL,
\* the complement iterator the only one that yields.
C19_Witness ==
    /\ pc = "done"
    /\ AlwaysFails
    /\ Len(initial) = NAtoms
    /\ Len(result) = 1
    /\ dd.config_iterator.subset_iterator = "skip"
    /\ testCalls >= 3

\* C20: a call on a config of fewer than 2 atoms on which the tester returns
\* FAIL returns that config after one tester invocation, the re-check: no
\* split, no candidate, no call of stop, no second iteration with dd_star.
C20_ShortConfig ==
    Len(initial) < 2 =>
        /\ testCalls <= 1
        /\ tests_left = dd.stop.max_tests
        /\ stopCalls = 0
        /\ ~expired
        /\ iter_cnt = 0
        /\ pc \notin {"reduce", "ReductionStopped", "ReductionError"}
        /\ subsets \in {<< >>, << initial >>}
        /\ (pc \in Ended /\ Tested(initial, FAIL)) =>
               (pc = "done" /\ result = initial /\ testCalls = 1)

\* A dd-star call with a spent LimitReduction returned its one-atom config.
C20_Witness ==
    /\ pc = "done"
    /\ Len(initial) = 1
    /\ result = initial
    /\ dd.dd_star
    /\ dd.stop.max_tests = 0
    /\ testCalls = 1

\* A step that took a candidate's outcome from the cache did not call the
\* tester, and the outcome is the one the tester gave that config.
HitSkipsTester ==
    last'.op = "cache" =>
        /\ testCalls' = testCalls
        /\ known' = known
        /\ Tested(last'.config, last'.outcome)

\* With a ConfigCache, a step that sent a candidate to the tester sent a
\* config the tester had not been given before in this call.
TestsOnce ==
    (last'.op = "test" /\ dd.cache.name = "config") =>
        last'.config \notin DOMAIN known

\* The two-atom reference case with a ConfigCache.
TwoAtomCached == tester.kind = "a" /\ dd.cache.name = "config"

NOps == 2

\* The four registered caches with every value of their keyword arguments.
CacheObjects ==
    [name : {"none", "config", "content", "content-hash"},
     cache_fail : BOOLEAN, evict_after_fail : BOOLEAN]

\* The atoms of three test cases: characters, lines of unequal length, and
\* characters that repeat.
CharAtoms == << << "a" >>, << "b" >>, << "c" >> >>
LineAtoms == << << "a", "b" >>, << "b" >>, << "a" >> >>
RepeatedAtoms == << << "a" >>, << "a" >>, << "b" >> >>

TestBuilders == {CharAtoms, LineAtoms, RepeatedAtoms}

\* The configurations of a test case of three atoms.
CacheConfigs ==
    { << >>, << 1 >>, << 2 >>, << 3 >>, << 1, 2 >>, << 1, 3 >>, << 2, 3 >>,
      << 1, 2, 3 >> }

\* The variables of a DD call and of a parallel loop when there is neither.
NoCall ==
    /\ tester = Deterministic
    /\ known = << >>
    /\ pc = "idle"
    /\ config = << >>
    /\ initial = << >>
    /\ subsets = << >>
    /\ complement_offset = 0
    /\ changed = FALSE
    /\ iter_cnt = 0
    /\ run = 0
    /\ remS = {}
    /\ remC = {}
    /\ tests_left = 0
    /\ expired = FALSE
    /\ result = None
    /\ call = 1
    /\ first = << >>
    /\ testCalls = 0
    /\ stopCalls = 0
    /\ hits = 0
    /\ smallest = << >>
    /\ jobs = << >>
    /\ fail_index = -1
    /\ shared_break = 0

callState == << tester, known, pc, config, initial, subsets, complement_offset,
                changed, iter_cnt, run, remS, remC, tests_left, expired, result,
                call, first, testCalls, stopCalls, hits, smallest, jobs,
                fail_index, shared_break, others >>

\* Cache.__init__ and set_test_builder: ConfigCache and NoCache keep no
\* test builder.
InitCache ==
    /\ dd \in { [d EXCEPT !.cache = c] : d \in DefaultDD, c \in CacheObjects }
    /\ test_builder \in IF dd.cache.name \in {"content", "content-hash"}
                        THEN TestBuilders ELSE { << >> }
    /\ root = EmptyRoot
    /\ container = << >>
    /\ stored = << >>
    /\ cleared = FALSE
    /\ NoOthers
    /\ last_fail = << >>
    /\ ops = 0
    /\ last = [op |-> "init", config |-> << >>,
               id |-> [run |-> 0, dir |-> "none", index |-> 0], outcome |-> None]
    /\ NoCall

\* cache.lookup(cfg) on the cache object
lookup(cfg) ==
    CASE dd.cache.name = "config" -> ConfigCacheLookup(root, cfg)
      [] dd.cache.name = "content" -> ContentCacheLookup(container, test_builder, cfg)
      [] dd.cache.name = "content-hash" ->
             ContentHashCacheLookup(container, test_builder, cfg)
      [] OTHER -> None

\* A plain map from config to outcome after add(cfg, res): the outcome is
\* stored if it is PASS or FAIL is cached, and a FAIL that evicts drops the
\* entries of the longer configs.
StoredAdd(c, map, cfg, res) ==
    LET put == IF res = PASS \/ c.cache_fail
               THEN [ k \in DOMAIN map \cup {cfg} |-> IF k = cfg THEN res ELSE map[k] ]
               ELSE map
    IN  IF res = FAIL /\ c.evict_after_fail
        THEN [ k \in { u \in DOMAIN put : Len(u) <= Len(cfg) } |-> put[k] ]
        ELSE put

\* cache.add(cfg, res)
Add ==
    /\ ops < NOps
    /\ \E cfg \in CacheConfigs, res \in Outcome :
         /\ root' = IF dd.cache.name = "config"
                    THEN ConfigCacheAdd(dd.cache, root, cfg, res) ELSE root
         /\ container' =
              CASE dd.cache.name = "content" ->
                     ContentCacheAdd(dd.cache, container, test_builder, cfg, res)
                [] dd.cache.name = "content-hash" ->
                     ContentHashCacheAdd(dd.cache, container, test_builder, cfg, res)
                [] OTHER -> container
         /\ stored' = StoredAdd(dd.cache, stored, cfg, res)
         /\ last_fail' = IF res = FAIL THEN << cfg >>
                         ELSE IF dd.cache.name = "none" THEN last_fail ELSE << >>
         /\ last' = [op |-> "add", config |-> cfg,
                     id |-> [run |-> 0, dir |-> "none", index |-> 0], outcome |-> res]
    /\ cleared' = FALSE
    /\ ops' = ops + 1
    /\ UNCHANGED << dd, test_builder, callState >>

\* cache.lookup(cfg)
Lookup ==
    /\ \E cfg \in CacheConfigs :
         last' = [op |-> "lookup", config |-> cfg,
                  id |-> [run |-> 0, dir |-> "none", index |-> 0],
                  outcome |-> lookup(cfg)]
    /\ UNCHANGED << dd, test_builder, root, container, stored, cleared, last_fail,
                    ops, callState >>

\* cache.clear(): ConfigCache takes a new root; ContentCache.clear and
\* ContentHashCache.clear are `pass`.
Clear ==
    /\ ops < NOps
    /\ root' = IF dd.cache.name = "config" THEN EmptyRoot ELSE root
    /\ container' = container
    /\ stored' = << >>
    /\ cleared' = TRUE
    /\ last_fail' = << >>
    /\ ops' = ops + 1
    /\ last' = [op |-> "clear", config |-> << >>,
                id |-> [run |-> 0, dir |-> "none", index |-> 0], outcome |-> None]
    /\ UNCHANGED << dd, test_builder, callState >>

NextCache == Add \/ Lookup \/ Clear

SpecCache == InitCache /\ [][NextCache]_vars


(***************************************************************************)
(* Properties of the caches.                                               *)
(***************************************************************************)
\* The length a cache measures a config by: ConfigCache the number of its
\* atoms (the depth of its node), the content caches len(test_content).
MeasuredLength(cfg) ==
    IF dd.cache.name = "config" THEN Len(cfg)
    ELSE Len(ConcatTestBuilder(test_builder, cfg))

\* add(c, FAIL) was the last add that could store or evict, on a cache that
\* evicts.
AfterEvictingFail ==
    /\ dd.cache.name \in {"config", "content", "content-hash"}
    /\ dd.cache.evict_after_fail
    /\ last_fail # << >>

\* C14 as stated, the length of a config being the number of its atoms for
\* every cache: after add(c, FAIL) with evict_after_fail, until an add
\* stores an entry, no lookup of a config with more atoms than c returns PASS.
C14_EvictionSafety_AsStated ==
    AfterEvictingFail =>
        \A c \in CacheConfigs :
            Len(c) > Len(last_fail[1]) => lookup(c) # PASS

\* C14: eviction safety.  After add(c, FAIL) with evict_after_fail on the
\* config, content or content-hash cache, and until an add stores an entry,
\* no lookup returns PASS for a config that is longer than c in the length
\* the cache measures: the number of atoms for the config cache, the length
\* of the built test content for the content and content-hash caches.
C14_EvictionSafety ==
    AfterEvictingFail =>
        \A c \in CacheConfigs :
            MeasuredLength(c) > MeasuredLength(last_fail[1]) => lookup(c) # PASS

\* C14's case: after another add, a FAIL of one atom was added to a content
\* cache, and a config of two atoms and a longer content is looked up.
C14_Witness ==
    /\ AfterEvictingFail
    /\ dd.cache.name = "content"
    /\ ops = 2
    /\ Len(last_fail[1]) = 1
    /\ last.op = "lookup"
    /\ Len(last.config) = 2
    /\ MeasuredLength(last.config) > MeasuredLength(last_fail[1])
    /\ last.outcome = None


\* FAIL-caching is in effect: cache_fail on a cache that looks at it.
FailCaching == dd.cache.cache_fail /\ dd.cache.name \in {"config", "content"}

\* C15: FAIL outcomes are stored only when FAIL-caching is in effect.  On
\* the config and content caches without cache_fail, and on the
\* content-hash cache with either value of cache_fail, no lookup returns
\* FAIL after any adds; on the config and content caches with cache_fail,
\* right after add(c, FAIL) lookup(c) returns FAIL.
C15_FailOnlyWhenCached ==
    /\ (dd.cache.name \in {"config", "content", "content-hash"} /\ ~FailCaching) =>
           \A c \in CacheConfigs : lookup(c) # FAIL
    /\ (FailCaching /\ last.op = "add" /\ last.outcome = FAIL) =>
           lookup(last.config) = FAIL

\* C15's case: a content cache that caches FAIL and evicts holds a PASS, a
\* FAIL of two atoms was just added, and its lookup returns FAIL.
C15_Witness ==
    /\ ops = 2
    /\ last.op = "add"
    /\ last.outcome = FAIL
    /\ Len(last.config) = 2
    /\ dd.cache.cache_fail
    /\ dd.cache.evict_after_fail
    /\ dd.cache.name = "content"
    /\ lookup(last.config) = FAIL
    /\ \E c \in CacheConfigs : lookup(c) = PASS


\* What a plain map from config to outcome returns for c.
StoredLookup(c) == IF c \in DOMAIN stored THEN stored[c] ELSE None

\* lookup leaves the cache as it is.
LookupKeeps == last'.op = "lookup" => root' = root /\ container' = container

\* C16: the config cache behaves like a plain map from config to outcome.
\* After any adds, lookups and clears, lookup(c) returns the outcome most
\* recently stored for exactly c and not evicted or cleared since, and
\* nothing otherwise (so nothing for a prefix or an extension of a stored
\* config that was not stored itself); a lookup does not change the cache,
\* and looking up the same config again returns the same.
C16_TrieIsPlainMap ==
    /\ [][dd.cache.name = "config" => LookupKeeps]_vars
    /\ [](dd.cache.name = "config" =>
            /\ \A c \in CacheConfigs : ConfigCacheLookup(root, c) = StoredLookup(c)
            /\ (last.op = "lookup" => lookup(last.config) = last.outcome))

\* C16's case: the config cache holds an outcome for << 1, 2 >> alone, and
\* the lookup of its prefix << 1 >> returned nothing.
C16_Witness ==
    /\ dd.cache.name = "config"
    /\ DOMAIN stored = { << 1, 2 >> }
    /\ << 1 >> \in DOMAIN root
    /\ last.op = "lookup"
    /\ last.config = << 1 >>
    /\ last.outcome = None
    /\ lookup(<< 1, 2, 3 >>) = None
    /\ lookup(<< 1, 2 >>) \in Outcome


\* C17: clear() clears the cache.  For each of the four caches, after
\* clear() and until the next add every lookup returns nothing.
C17_ClearEmpties ==
    cleared => \A c \in CacheConfigs : lookup(c) = None


(***************************************************************************)
(* The parallel reduce step: CombinedParallelDD._reduce_config             *)
(* (picire/combined_parallel_dd.py) dispatching AbstractParallelDD.        *)
(* _loop_body (picire/abstract_parallel_dd.py) through parallel_loop.Loop  *)
(* (picire/parallel_loop.py).  The dispatcher is at pc: "loop" at the head *)
(* of the for loop, "do" inside Loop.do waiting for a slot, "start" before *)
(* it starts the process, "join" inside                                    *)
(* Loop.join, "returned" after the return.  A job is a record [index,      *)
(* config, config_id, slot, at, alive, outcome, loop]: `loop` is the call  *)
(* of _reduce_config whose Loop object started it, `at` is how far its     *)
(* process has come, `alive` whether it runs and no SIGTERM was sent to    *)
(* it.  Loop._abort sends the signal and frees the slot without waiting    *)
(* for the process, so a signalled process may still do the stores that    *)
(* follow its test before it ends; its tester, in the same process group,  *)
(* does not complete.  The processes, the fail index and the break flag    *)
(* are shared without locks, so every statement of a worker is a step of   *)
(* its own.                                                                *)
(***************************************************************************)
NProc == 2

\* CombinedIterator.__call__(2 * n) of combined_parallel_dd.py: both
\* iterators are called with n; the plain `forward` default yields the same
\* as subset-first forward/forward.
ParallelNext(it, n, restS, restC) ==
    LET fromS == { [value |-> i, remS |-> restS \ {i}, remC |-> restC] :
                     i \in IterNext(it.subset_iterator, restS) }
        fromC == { [value |-> i + n, remS |-> restS, remC |-> restC \ {i}] :
                     i \in IterNext(it.complement_iterator, restC) }
    IN  IF it.subset_first
        THEN (IF fromS # {} THEN fromS ELSE fromC)
        ELSE (IF fromC # {} THEN fromC ELSE fromS)

\* Lines 100-106: the candidate of iterator value i and its index.
ParallelCandidate(i) ==
    LET n == Len(subsets) IN
    IF i < n
    THEN [config_id |-> [run |-> run, dir |-> "s", index |-> i],
          config_set |-> subsets[i + 1],
          i |-> i]
    ELSE LET k == (i - n + complement_offset) % n
         IN  [config_id |-> [run |-> run, dir |-> "c", index |-> k],
              config_set |-> Flatten(WithoutIndex(subsets, k)),
              i |-> k + n]

\* Lines 125-133: what _reduce_config returns for fvalue.
ParallelReturn(fvalue) ==
    LET n == Len(subsets) IN
    IF fvalue # -1
    THEN IF fvalue < n
         THEN [found |-> TRUE,
               next_subsets |-> << subsets[fvalue + 1] >>,
               complement_offset |-> 0]
         ELSE [found |-> TRUE,
               next_subsets |-> WithoutIndex(subsets, fvalue - n),
               complement_offset |-> fvalue - n]
    ELSE [found |-> FALSE,
          next_subsets |-> << >>,
          complement_offset |-> complement_offset]

\* A process that was started and has not come to its end: it still runs,
\* also when SIGTERM was sent to it (alive is FALSE) and is not delivered yet.
Running(job) == job.at \in {"start", "tested", "written", "raised", "broke"}

\* A process that was started, whose slot is neither set to 0 by itself nor
\* by Loop._abort.
Live(job) == job.alive /\ Running(job)

\* if self._break.value, with `if False`: a broken loop goes on.
Broken_Never(flag) == FALSE

\* if self._break.value (lines 132, 147 and 161 of parallel_loop.py)
Broken(flag) == flag # 0

\* ploop.brk(): Loop.brk is called at combined_parallel_dd.py:114 and is not
\* in parallel_loop.py; it sets the break flag of the loop, so that no new
\* job is started once a FAIL was found in the cache.
brk == 1

\* The slots that are not 0 after Loop._cleanup_slots.
BusySlots == { jobs[k].slot : k \in { j \in DOMAIN jobs : Live(jobs[j]) } }

FreeSlots == (1..dd.proc_num) \ BusySlots

\* Loop._abort: SIGTERM to the process of every slot that is set; the job
\* do() was about to start is not started.
Abort(js) ==
    [ k \in DOMAIN js |->
        IF Live(js[k]) THEN [js[k] EXCEPT !.alive = FALSE]
        ELSE IF js[k].at = "pending" THEN [js[k] EXCEPT !.at = "dropped"]
        ELSE js[k] ]

\* One turn of the for loop up to the entry of ploop.do (lines 96-118, and
\* lines 132-135 of parallel_loop.py).
ParIterate ==
    /\ pc = "loop"
    /\ LET n == Len(subsets)
           nxt == ParallelNext(dd.config_iterator, n, remS, remC)
       IN  IF nxt = {}
           THEN /\ pc' = "join"
                /\ UNCHANGED << remS, remC, jobs, fail_index, shared_break, last >>
           ELSE \E y \in nxt :
                  LET cand == ParallelCandidate(y.value)
                      cached == lookup_cache(cand.config_set)
                  IN  /\ remS' = y.remS
                      /\ remC' = y.remC
                      /\ CASE cached = PASS ->
                                /\ pc' = "loop"
                                /\ UNCHANGED << jobs, fail_index, shared_break, last >>
                           [] cached = FAIL ->
                                /\ fail_index' = cand.i
                                /\ shared_break' = brk
                                /\ pc' = "join"
                                /\ last' = [op |-> "cache", config |-> cand.config_set,
                                            id |-> cand.config_id, outcome |-> cached]
                                /\ UNCHANGED jobs
                           [] OTHER ->
                                /\ fail_index' = fail_index
                                /\ shared_break' = shared_break
                                /\ last' = last
                                /\ IF Broken(shared_break)
                                   THEN /\ jobs' = Abort(jobs)
                                        /\ pc' = "join"
                                   ELSE /\ jobs' = Append(jobs,
                                              [index |-> cand.i,
                                               config |-> cand.config_set,
                                               config_id |-> cand.config_id,
                                               slot |-> 0, at |-> "pending",
                                               alive |-> FALSE, outcome |-> None,
                                               loop |-> call])
                                        /\ pc' = "do"
    /\ UNCHANGED << dd, tester, known, config, initial, subsets, complement_offset,
                    changed, iter_cnt, run, root, tests_left, expired, result,
                    call, first, testCalls, stopCalls, hits, smallest,
                    container, test_builder, stored, cleared, others,
                    last_fail, ops >>

\* Loop.do from its wait to its second look at the break flag (lines
\* 137-149): once a slot is free, abort if the loop is broken, go on to
\* start the process otherwise.
ParDo ==
    /\ pc = "do"
    /\ FreeSlots # {}
    /\ IF Broken(shared_break)
       THEN /\ jobs' = Abort(jobs)
            /\ pc' = "join"
       ELSE /\ jobs' = [jobs EXCEPT ![Len(jobs)].slot = SetMin(FreeSlots)]
            /\ pc' = "start"
    /\ UNCHANGED << dd, tester, known, config, initial, subsets, complement_offset,
                    changed, iter_cnt, run, remS, remC, root, tests_left, expired,
                    result, call, first, testCalls, stopCalls, hits, smallest,
                    fail_index, shared_break, container, test_builder, stored,
                    cleared, others, last_fail, ops, last >>

\* The end of Loop.do (lines 151-155): the process is started in the slot
\* found, whatever the break flag has become since it was looked at.
ParStart ==
    /\ pc = "start"
    /\ jobs' = [jobs EXCEPT ![Len(jobs)] = [@ EXCEPT !.at = "start", !.alive = TRUE]]
    /\ pc' = "loop"
    /\ UNCHANGED << dd, tester, known, config, initial, subsets, complement_offset,
                    changed, iter_cnt, run, remS, remC, root, tests_left, expired,
                    result, call, first, testCalls, stopCalls, hits, smallest,
                    fail_index, shared_break, container, test_builder, stored,
                    cleared, others, last_fail, ops, last >>

\* Loop.join and the return (lines 121-133): join returns when the loop is
\* broken, after aborting, or when no slot is set.
ParJoin ==
    /\ pc = "join"
    /\ Broken(shared_break) \/ BusySlots = {}
    /\ jobs' = IF Broken(shared_break) THEN Abort(jobs) ELSE jobs
    /\ result' = ParallelReturn(fail_index)
    /\ pc' = "returned"
    /\ UNCHANGED << dd, tester, known, config, initial, subsets, complement_offset,
                    changed, iter_cnt, run, remS, remC, root, tests_left, expired,
                    call, first, testCalls, stopCalls, hits, smallest,
                    fail_index, shared_break, container, test_builder, stored,
                    cleared, others, last_fail, ops, last >>

\* What a worker leaves alone.
dispatcher == << dd, tester, pc, config, initial, subsets, complement_offset,
                 changed, iter_cnt, run, remS, remC, tests_left, expired, result,
                 call, first, stopCalls, hits, smallest, last, container,
                 test_builder, stored, cleared, others, last_fail, ops >>

\* self._test_config(config, config_id) in _loop_body: the tester is called
\* and its outcome added to the shared cache, or the tester raises.
WorkerTest(k) ==
    /\ jobs[k].alive
    /\ jobs[k].at = "start"
    /\ \E answer \in TesterAnswers(jobs[k].config) \ {INVALID} :
         /\ known' = Remember(jobs[k].config, answer)
         /\ IF answer \in Outcome
            THEN /\ root' = CacheAdd(dd.cache, root, jobs[k].config, answer)
                 /\ jobs' = [jobs EXCEPT ![k] =
                               [@ EXCEPT !.at = "tested", !.outcome = answer]]
            ELSE /\ root' = root
                 /\ jobs' = [jobs EXCEPT ![k] =
                               [@ EXCEPT !.at = "raised", !.outcome = answer]]
    /\ testCalls' = testCalls + 1
    /\ UNCHANGED << dispatcher, fail_index, shared_break >>

\* self._fail_index.value = index
WorkerWrite(k) ==
    /\ jobs[k].at = "tested"
    /\ jobs[k].outcome = FAIL
    /\ fail_index' = jobs[k].index
    /\ jobs' = [jobs EXCEPT ![k].at = "written"]
    /\ UNCHANGED << dispatcher, known, root, testCalls, shared_break >>

\* shared_break.value = 1, after target returned False or raised; the flag
\* is the one of the Loop object that started the process.
WorkerBreak(k) ==
    /\ jobs[k].at \in {"written", "raised"}
    /\ shared_break' = IF jobs[k].loop = call THEN 1 ELSE shared_break
    /\ jobs' = [jobs EXCEPT ![k].at = "broke"]
    /\ UNCHANGED << dispatcher, known, root, testCalls, fail_index >>

\* shared_slots[i] = 0 and the notify.
WorkerExit(k) ==
    /\ \/ jobs[k].at = "tested" /\ jobs[k].outcome = PASS
       \/ jobs[k].at = "broke"
    /\ jobs' = [jobs EXCEPT ![k].at = "finished"]
    /\ UNCHANGED << dispatcher, known, root, testCalls, fail_index, shared_break >>

\* SIGTERM is delivered: the process ends where it is.
WorkerKilled(k) ==
    /\ ~jobs[k].alive
    /\ Running(jobs[k])
    /\ jobs' = [jobs EXCEPT ![k].at = "killed"]
    /\ UNCHANGED << dispatcher, known, root, testCalls, fail_index, shared_break >>

Worker == \E k \in DOMAIN jobs :
            \/ WorkerTest(k) \/ WorkerWrite(k) \/ WorkerBreak(k)
            \/ WorkerExit(k) \/ WorkerKilled(k)

NextPar == ParIterate \/ ParDo \/ ParStart \/ ParJoin \/ Worker

\* A tester that repeats its answers and may raise.
Unreliable == [kind |-> "any", deterministic |-> TRUE, reliable |-> FALSE]

\* The iterators of a parallel step: subsets forward or backward, before
\* or after the complements.
ParIterators ==
    [subset_first : BOOLEAN, subset_iterator : {"forward", "backward"},
     complement_iterator : {"forward"}]

\* The caches of a parallel step: none, ConfigCache() and
\* ConfigCache(cache_fail=True), shared with the workers.
ParCaches ==
    DefaultCaches \cup
    { [name |-> "config", cache_fail |-> TRUE, evict_after_fail |-> TRUE] }

\* CombinedParallelDD(test, cache, proc_num, config_iterator) with the
\* default splitter.
ParStrategies ==
    [split : { [name |-> "zeller", inf |-> FALSE, n |-> 2] }, cache : ParCaches,
     config_iterator : ParIterators, dd_star : {FALSE}, stop : {NoStop},
     proc_num : 1..NProc]

\* The subsets a run of __call__ can hand to _reduce_config for a config of
\* len atoms: the config split once, twice or three times.
ParSubsets(sp, len) ==
    LET s0 == << [ i \in 1..len |-> i ] >>
        s1 == Split(sp, s0)
        s2 == IF Len(s1) < len THEN Split(sp, s1) ELSE s1
        s3 == IF Len(s2) < len THEN Split(sp, s2) ELSE s2
    IN  {s1, s2, s3}

\* The entry of _reduce_config up to line 95, the cache cold, in the first
\* run (complement_offset 0) or after a complement failed at index 1.
InitPar ==
    /\ dd \in ParStrategies
    /\ tester = Unreliable
    /\ \E len \in 2..NAtoms :
         /\ config = [ i \in 1..len |-> i ]
         /\ subsets \in ParSubsets(dd.split, len)
    /\ initial = config
    /\ complement_offset \in {0, 1}
    /\ remS = IterStart(dd.config_iterator.subset_iterator, Len(subsets))
    /\ remC = IterStart(dd.config_iterator.complement_iterator, Len(subsets))
    /\ pc = "loop"
    /\ known = << >>
    /\ changed = FALSE
    /\ iter_cnt = 0
    /\ run = 0
    /\ root = EmptyRoot
    /\ tests_left = 0
    /\ expired = FALSE
    /\ result = None
    /\ call = 1
    /\ first = << >>
    /\ testCalls = 0
    /\ stopCalls = 0
    /\ hits = 0
    /\ smallest = << >>
    /\ container = << >>
    /\ test_builder = << >>
    /\ stored = << >>
    /\ cleared = FALSE
    /\ NoOthers
    /\ last_fail = << >>
    /\ ops = 0
    /\ jobs = << >>
    /\ fail_index = -1
    /\ shared_break = 0
    /\ last = [op |-> "init", config |-> << >>,
               id |-> [run |-> 0, dir |-> "none", index |-> 0], outcome |-> None]

SpecPar == InitPar /\ [][NextPar]_vars


(***************************************************************************)
(* Properties of the parallel reduce step.                                 *)
(***************************************************************************)
\* The jobs whose process ran to its end with a test that failed; a job's
\* place in `jobs` is its position in the iterator's order.
CompletedFail ==
    { k \in DOMAIN jobs : jobs[k].at = "finished" /\ jobs[k].outcome = FAIL }

\* C11: earliest-index FAIL wins.  When the parallel reduce step returns
\* and tests completed with FAIL, the shared fail index is the index of the
\* one with the smallest iterator position among them, and the partition
\* returned is that candidate's.
C11_EarliestFailWins ==
    (pc = "returned" /\ CompletedFail # {}) =>
        /\ fail_index = jobs[SetMin(CompletedFail)].index
        /\ result = ParallelReturn(jobs[SetMin(CompletedFail)].index)

\* Every test that was dispatched ran to the end of its process, and none
\* raised.
AllCompleted ==
    \A k \in DOMAIN jobs :
        \/ jobs[k].at = "dropped"
        \/ jobs[k].at = "finished" /\ jobs[k].outcome \in Outcome

\* fvalue of DD._reduce_config for the same subsets, offset, iterator order
\* and answers: the first candidate in the order that fails, n if none.
SequentialChoice ==
    LET n == Len(subsets)
        fails == { k \in DOMAIN jobs : jobs[k].outcome = FAIL }
    IN  IF fails = {} THEN n
        ELSE LET i == jobs[SetMin(fails)].index
             IN  IF i < n THEN i ELSE -(i - n) - 1

\* C12: parallel/sequential equivalence.  With a deterministic tester and a
\* cold cache, when the parallel reduce step returns and every dispatched
\* test completed, what it returns is what the sequential reduce step
\* returns: the partition of the first FAIL in iterator order.
C12_ParallelEqualsSequential ==
    (pc = "returned" /\ AllCompleted) => result = ReduceReturn(SequentialChoice)

\* A worker's tester raised.
WorkerRaised == \E k \in DOMAIN jobs : jobs[k].outcome = RAISE

\* C13: an exception in a worker surfaces as ReductionError.  A parallel
\* reduce step in which a worker's test raised does not return (neither a
\* partition nor "no FAIL found"); it ends with a ReductionError.
C13_WorkerExceptionIsReductionError ==
    (WorkerRaised /\ pc \in {"returned", "AttributeError", "ReductionError"}) =>
        pc = "ReductionError"


(***************************************************************************)
(* The run loop of DD.__call__: partition and offset (dd.py 78-113).       *)
(***************************************************************************)
\* subsets is a list of non-empty chunks whose concatenation is config, with
\* at least one chunk and at most one per atom.
Partition ==
    /\ \A j \in 1..Len(subsets) : Len(subsets[j]) >= 1
    /\ Flatten(subsets) = config
    /\ 1 <= Len(subsets)
    /\ Len(subsets) <= Len(config)

\* The places of the claim: a reduce step is about to run, or a run is over
\* (the next run is about to begin, or the run loop was left by break).
InRunLoop ==
    \/ pc = "reduce"
    \/ pc = "run" /\ run > 0
    \/ pc = "done"
    \/ pc = "iteration" /\ iter_cnt > 0

\* C21 as stated: at every reduce step and after every run subsets is a
\* partition of config into non-empty chunks, whatever config the call got.
C21_Partition_AsStated == InRunLoop => Partition

\* C21: at every reduce step and after every run of a call that was given a
\* non-empty config, subsets is an ordered list of non-empty chunks whose
\* concatenation is config, and 1 <= |subsets| <= |config|.
C21_Partition == (InRunLoop /\ Len(initial) >= 1) => Partition

\* A run ended with a complement removal that left two chunks or more.
C21_Witness ==
    /\ pc = "run"
    /\ run > 0
    /\ last.id.dir = "c"
    /\ Len(subsets) >= 2
    /\ Partition

\* C22 as stated: at every reduce step complement_offset is an index of
\* subsets.
C22_OffsetIsIndex_AsStated ==
    pc = "reduce" => (0 <= complement_offset /\ complement_offset < Len(subsets))

\* C22: at every reduce step 0 <= complement_offset <= |subsets|, and the
\* offset is 0 in the first run of an iteration.  (It equals |subsets| in the
\* run after a complement test removed the last subset.)
C22_OffsetIsIndex ==
    pc = "reduce" =>
      /\ 0 <= complement_offset
      /\ complement_offset <= Len(subsets)
      /\ run = 0 => complement_offset = 0

\* A reduce step in the run that follows a complement removal, with the
\* offset on a subset that is not the first.
C22_Witness ==
    /\ pc = "reduce"
    /\ run > 0
    /\ complement_offset > 0
    /\ complement_offset < Len(subsets)

(***************************************************************************)
(* The sequential reduce step (dd.py 121-164).                             *)
(***************************************************************************)
\* The step just taken looked up or tested a candidate of _reduce_config.
Evaluated == pc = "reduce" /\ last'.op \in {"test", "cache"}

\* The candidate just evaluated is the next one of the combined iterator.
InIteratorOrder ==
    \E y \in CombinedNext(dd.config_iterator, remS, remC) :
      /\ last'.id = Candidate(y.value).config_id
      /\ last'.config = Candidate(y.value).config_set

\* The run ends with what _reduce_config returns for the FAIL just seen.
ReturnsFirstFail ==
    /\ pc' = "run"
    /\ run' = run + 1
    /\ IF last'.id.dir = "s"
       THEN /\ subsets' = << subsets[last'.id.index + 1] >>
            /\ complement_offset' = 0
       ELSE /\ subsets' = WithoutIndex(subsets, last'.id.index)
            /\ complement_offset' = last'.id.index
    /\ config' = Flatten(subsets')

\* Every candidate of the run got an outcome other than FAIL.
NoCandidateFails ==
    LET n == Len(subsets) IN
    /\ \A i \in IterStart(dd.config_iterator.subset_iterator, n) :
         \E o \in Outcome \ {FAIL} : Tested(subsets[i + 1], o)
    /\ \A i \in IterStart(dd.config_iterator.complement_iterator, n) :
         \E o \in Outcome \ {FAIL} :
           Tested(Flatten(WithoutIndex(subsets, (i + complement_offset) % n)), o)

\* C23: the reduce step evaluates the candidates in the order of the combined
\* iterator; at the first FAIL, cached or tested, it returns ([subsets[i]], 0)
\* for a subset hit at i and (subsets without k', k') for a complement hit at
\* k', and the run is over (nothing more of it is looked up or tested); it
\* returns null and the unchanged offset only when no candidate is FAIL.
C23_StopsAtFirstFail ==
    [][ /\ Evaluated => InIteratorOrder
        /\ (Evaluated /\ last'.outcome = FAIL) => ReturnsFirstFail
        /\ (Evaluated /\ last'.outcome = PASS) =>
              (pc' = "reduce" /\ UNCHANGED << subsets, complement_offset, config, run >>)
        /\ (pc = "reduce" /\ last'.op = "exhausted") =>
              /\ NoCandidateFails
              /\ config' = config
              /\ pc' # "run" => UNCHANGED << subsets, complement_offset >>
              /\ pc' = "run" =>
                   complement_offset' =
                     RescaleOffset(complement_offset, Len(subsets'), Len(subsets))
      ]_vars

\* A complement hit that is not the first candidate of its run: the cache
\* or the tester said PASS to an earlier one.
C23_Witness ==
    /\ pc = "run"
    /\ last.op \in {"test", "cache"}
    /\ last.outcome = FAIL
    /\ last.id.dir = "c"
    /\ last.id.index > 0
    /\ complement_offset = last.id.index
    /\ \E cfg \in DOMAIN known : known[cfg] = PASS

\* The step just taken evaluated the complement of the subset whose index is
\* (k + complement_offset) mod n, k being the next value of the complement
\* iterator; a FAIL on it removes that subset.
RemovesShifted ==
    LET n == Len(subsets) IN
    \E k \in IterNext(dd.config_iterator.complement_iterator, remC) :
      LET kk == (k + complement_offset) % n IN
      /\ 0 <= kk /\ kk < n
      /\ last'.id = [run |-> run, dir |-> "c", index |-> kk]
      /\ last'.config = Flatten(WithoutIndex(subsets, kk))
      /\ ParallelCandidate(k + n).config_id = last'.id
      /\ ParallelCandidate(k + n).config_set = last'.config
      /\ last'.outcome = FAIL =>
           /\ subsets' = WithoutIndex(subsets, kk)
           /\ config' = last'.config

\* After the removal of subset k' the first complement of a forward iterator
\* in the next run, Candidate(-1) of the new partition, removes the subset
\* that followed subset k' (the first one when k' was the last).
NextRemovesFollowing ==
    LET n == Len(subsets)
        kk == last'.id.index
        first_removed == (0 + complement_offset') % Len(subsets')
    IN  /\ complement_offset' = kk
        /\ subsets'[first_removed + 1] = subsets[((kk + 1) % n) + 1]

\* C24: the complement value k of the iterator stands for the removal of
\* subset k' = (k + complement_offset) mod n, 0 <= k' < n; the candidate is
\* flatten(subsets) without subset k', its id is (r{run}, c{k'}), a FAIL on
\* it removes exactly subset k', and the next run, when it keeps the
\* partition, starts its complements at the subset that followed subset k'.
C24_ComplementMapping ==
    [][ /\ (Evaluated /\ last'.id.dir = "c") => RemovesShifted
        /\ (Evaluated /\ last'.id.dir = "c" /\ last'.outcome = FAIL
              /\ Len(subsets') >= 2) => NextRemovesFollowing
        /\ (pc = "run" /\ pc' = "reduce" /\ Len(subsets) >= 2) =>
              UNCHANGED << subsets, complement_offset >>
      ]_vars

\* The run after a complement removal tests, as its first complement, the
\* removal of the subset at the offset, which is not the first subset.
C24_Witness ==
    /\ pc = "reduce"
    /\ run > 0
    /\ complement_offset > 0
    /\ last.op = "test"
    /\ last.id.dir = "c"
    /\ last.id.run = run
    /\ last.id.index = complement_offset % Len(subsets)
    /\ remC = IterStart(dd.config_iterator.complement_iterator, Len(subsets)) \ {0}

(***************************************************************************)
(* The stop callable (dd.py 67-70, 144-148, 166-174).                      *)
(***************************************************************************)
\* C25: with a stop callable installed, stop() is called once right before
\* every invocation of the tester and never for a cache hit, so the calls of
\* stop() that returned equal in number the invocations of the tester.
C25_StopBeforeEveryTest ==
    dd.stop.kind # "none" => stopCalls = testCalls

(***************************************************************************)
(* A LimitReduction object called on its own (limit_reduction.py 20-46).   *)
(***************************************************************************)
NLimit == 6

\* LimitReduction(max_tests=m), LimitReduction(deadline=..., max_tests=m)
\* and LimitReduction(deadline=...).
StopObjects ==
    { [kind |-> "limit", deadline |-> d, limited |-> TRUE, max_tests |-> m] :
        d \in BOOLEAN, m \in 0..NLimit }
    \cup { [kind |-> "limit", deadline |-> TRUE, limited |-> FALSE, max_tests |-> 0] }

\* LimitReduction.__init__: self._tests_left = max_tests.
InitStop ==
    /\ dd \in { [d EXCEPT !.stop = s] : d \in DefaultDD, s \in StopObjects }
    /\ tests_left = dd.stop.max_tests
    /\ expired = FALSE
    /\ stopCalls = 0
    /\ ops = 0
    /\ pc = "stop"
    /\ tester = Deterministic
    /\ known = << >>
    /\ config = << >>
    /\ initial = << >>
    /\ subsets = << >>
    /\ complement_offset = 0
    /\ changed = FALSE
    /\ iter_cnt = 0
    /\ run = 0
    /\ remS = {}
    /\ remC = {}
    /\ root = EmptyRoot
    /\ result = None
    /\ call = 1
    /\ first = << >>
    /\ testCalls = 0
    /\ hits = 0
    /\ smallest = << >>
    /\ container = << >>
    /\ test_builder = << >>
    /\ stored = << >>
    /\ cleared = FALSE
    /\ NoOthers
    /\ last_fail = << >>
    /\ jobs = << >>
    /\ fail_index = -1
    /\ shared_break = 0
    /\ last = [op |-> "init", config |-> << >>,
               id |-> [run |-> 0, dir |-> "none", index |-> 0], outcome |-> None]

\* One invocation of the object, LimitReduction.__call__: ops counts the
\* invocations, stopCalls those that returned; it is called at most twice
\* more than max_tests times.
StopCall ==
    /\ pc = "stop"
    /\ ops < dd.stop.max_tests + 2
    /\ \E st \in LimitReductionCall(dd.stop, tests_left, expired) :
         /\ tests_left' = st.tests_left
         /\ expired' = st.expired
         /\ stopCalls' = IF st.raised THEN stopCalls ELSE stopCalls + 1
         /\ last' = [op |-> IF st.raised THEN "ReductionStopped" ELSE "returned",
                     config |-> << >>,
                     id |-> [run |-> 0, dir |-> "none", index |-> 0],
                     outcome |-> None]
    /\ ops' = ops + 1
    /\ UNCHANGED << dd, tester, known, pc, config, initial, subsets,
                    complement_offset, changed, iter_cnt, run, remS, remC, root,
                    result, call, first, testCalls, hits, smallest, container,
                    test_builder, stored, cleared, others, last_fail, jobs, fail_index,
                    shared_break >>

NextStop == StopCall

SpecStop == InitStop /\ [][NextStop]_vars

\* C26: LimitReduction with max_tests = N.  An invocation at or past the
\* deadline raises ReductionStopped and leaves the budget as it was;
\* otherwise it returns and takes one from the budget while the budget is
\* positive, and raises and leaves the budget at zero once it is zero.  So
\* without an expired deadline the first N invocations return, every later
\* one raises, and the budget is never negative.
C26_LimitBudget ==
    /\ [][ (dd.stop.limited /\ ops' = ops + 1) =>
             IF dd.stop.deadline /\ expired'
             THEN last'.op = "ReductionStopped" /\ tests_left' = tests_left
             ELSE IF tests_left > 0
             THEN last'.op = "returned" /\ tests_left' = tests_left - 1
             ELSE /\ last'.op = "ReductionStopped"
                  /\ tests_left' = 0
                  /\ stopCalls = dd.stop.max_tests
                  /\ ops >= dd.stop.max_tests ]_vars
    /\ [](dd.stop.limited =>
            /\ tests_left >= 0
            /\ tests_left = dd.stop.max_tests - stopCalls
            /\ ~expired => stopCalls = Min(ops, dd.stop.max_tests))

\* The budget of N >= 2 tests was used up and a later invocation raised.
C26_Witness ==
    /\ pc = "stop"
    /\ dd.stop.limited
    /\ dd.stop.max_tests >= 2
    /\ ~expired
    /\ ops = dd.stop.max_tests + 2
    /\ stopCalls = dd.stop.max_tests
    /\ tests_left = 0
    /\ last.op = "ReductionStopped"

(***************************************************************************)
(* What reaches cache.add (dd.py 193-216).                                 *)
(***************************************************************************)
\* C27: the re-check of config at the head of a run, whose id carries
\* 'assert', leaves the cache as it was: nothing is added and nothing is
\* evicted.  The outcome of every other test is passed to cache.add once:
\* the cache after the test is the cache before it with that one add.  A
\* cache hit leaves the cache as it was, too.
C27_AssertNotCached ==
    [][ /\ (pc = "run" /\ last'.op = "assert") => root' = root
        /\ (Evaluated /\ last'.op = "test" /\ last'.outcome \in Outcome) =>
              root' = CacheAdd(dd.cache, root, last'.config, last'.outcome)
        /\ (Evaluated /\ last'.op = "cache") => root' = root
      ]_vars

\* A reduced config, which the cache does not hold, has just been re-checked
\* and found FAIL, and the cache of the DD is still without it.
C27_Witness ==
    /\ dd.cache.name = "config"
    /\ dd.cache.cache_fail
    /\ last.op = "assert"
    /\ last.outcome = FAIL
    /\ run > 0
    /\ root # EmptyRoot
    /\ CacheLookup(dd.cache, root, last.config) = None

(***************************************************************************)
(* Cancellation in the parallel reduce step.                               *)
(***************************************************************************)
\* C30: when join() has returned, and so when the parallel reduce step has
\* returned, no worker the loop dispatched is still running: each has
\* finished or was terminated, and the fail index the dispatcher read is
\* the one that stays.
C30_NoWorkerAfterJoin ==
    pc = "returned" =>
        /\ \A k \in DOMAIN jobs : ~Running(jobs[k])
        /\ result = ParallelReturn(fail_index)

(***************************************************************************)
(* Two parallel reduce steps in a row: the run loop of AbstractDD.__call__ *)
(* (abstract_dd.py 56-94) between two calls of _reduce_config.  The fail   *)
(* index belongs to the DD object and is shared by both steps; every step  *)
(* has a Loop object, with a break flag and slots, of its own.             *)
(***************************************************************************)
\* Lines 76-94 of abstract_dd.py after _reduce_config returned r: the
\* subsets, config and offset of the next run, or the end of the run loop.
\* The offset of a first run is 0, and so is the quotient of line 87.
AfterStep(r) ==
    IF r.found
    THEN [ended |-> FALSE, subsets |-> r.next_subsets,
          config |-> Flatten(r.next_subsets),
          complement_offset |-> r.complement_offset]
    ELSE IF Len(subsets) < Len(config)
    THEN [ended |-> FALSE, subsets |-> Split(dd.split, subsets),
          config |-> config,
          complement_offset |->
            RescaleOffset(r.complement_offset, Len(Split(dd.split, subsets)),
                          Len(subsets))]
    ELSE [ended |-> TRUE, subsets |-> subsets, config |-> config,
          complement_offset |-> r.complement_offset]

\* The step returned and the run loop goes on: lines 76-94, then lines
\* 56-74 of the next run with its re-check of config, then _reduce_config
\* up to its loop (combined_parallel_dd.py 93-95): the fail index is reset
\* and a new Loop made.  The processes of the step before are left to
\* themselves.
ParAgain ==
    /\ pc = "returned"
    /\ call = 1
    /\ LET a == AfterStep(result)
           split == IF Len(a.subsets) < 2 THEN Split(dd.split, a.subsets)
                    ELSE a.subsets
       IN  IF a.ended
           THEN /\ pc' = "done"
                /\ result' = a.config
                /\ UNCHANGED << config, subsets, complement_offset, changed, run,
                                remS, remC, known, testCalls, fail_index,
                                shared_break, call >>
           ELSE /\ config' = a.config
                /\ complement_offset' = a.complement_offset
                /\ changed' = (changed \/ result.found)
                /\ run' = run + 1
                /\ testCalls' = testCalls + 1
                /\ \E answer \in TesterAnswers(a.config) \ {INVALID} :
                     /\ known' = Remember(a.config, answer)
                     /\ IF answer = RAISE
                        THEN /\ pc' = "Exception"
                             /\ result' = None
                             /\ subsets' = a.subsets
                             /\ UNCHANGED << remS, remC, fail_index, shared_break,
                                             call >>
                        ELSE IF ~AssertPasses(answer)
                        THEN /\ pc' = "AssertionError"
                             /\ result' = None
                             /\ subsets' = a.subsets
                             /\ UNCHANGED << remS, remC, fail_index, shared_break,
                                             call >>
                        ELSE IF Len(a.config) < 2
                        THEN /\ pc' = "done"
                             /\ result' = a.config
                             /\ subsets' = a.subsets
                             /\ UNCHANGED << remS, remC, fail_index, shared_break,
                                             call >>
                        ELSE /\ subsets' = split
                             /\ remS' = IterStart(dd.config_iterator.subset_iterator,
                                                  Len(split))
                             /\ remC' = IterStart(dd.config_iterator.complement_iterator,
                                                  Len(split))
                             /\ fail_index' = -1
                             /\ shared_break' = 0
                             /\ call' = 2
                             /\ result' = None
                             /\ pc' = "loop"
    /\ UNCHANGED << dd, tester, initial, iter_cnt, root, tests_left, expired,
                    first, stopCalls, hits, smallest, jobs, container,
                    test_builder, stored, cleared, others, last_fail, ops, last >>

NextParAgain == ParIterate \/ ParDo \/ ParStart \/ ParJoin \/ Worker \/ ParAgain

\* CombinedParallelDD(test, proc_num=NProc) with its defaults and a tester
\* that returns outcomes, at the entry of _reduce_config in the first run
\* of a call.
InitParAgain ==
    /\ dd \in { d \in ParStrategies :
                  /\ d.cache \in DefaultCaches /\ d.cache.name = "config"
                  /\ d.config_iterator.subset_first
                  /\ d.config_iterator.subset_iterator = "forward"
                  /\ d.proc_num = NProc }
    /\ tester = Deterministic
    /\ \E len \in 2..NAtoms :
         /\ config = [ i \in 1..len |-> i ]
         /\ subsets = Split(dd.split, << config >>)
    /\ initial = config
    /\ complement_offset = 0
    /\ remS = IterStart(dd.config_iterator.subset_iterator, Len(subsets))
    /\ remC = IterStart(dd.config_iterator.complement_iterator, Len(subsets))
    /\ pc = "loop"
    /\ known = (config :> FAIL)
    /\ changed = FALSE
    /\ iter_cnt = 0
    /\ run = 0
    /\ root = EmptyRoot
    /\ tests_left = 0
    /\ expired = FALSE
    /\ result = None
    /\ call = 1
    /\ first = << >>
    /\ testCalls = 1
    /\ stopCalls = 0
    /\ hits = 0
    /\ smallest = << >>
    /\ container = << >>
    /\ test_builder = << >>
    /\ stored = << >>
    /\ cleared = FALSE
    /\ NoOthers
    /\ last_fail = << >>
    /\ ops = 0
    /\ jobs = << >>
    /\ fail_index = -1
    /\ shared_break = 0
    /\ last = [op |-> "init", config |-> << >>,
               id |-> [run |-> 0, dir |-> "none", index |-> 0], outcome |-> None]

SpecParAgain == InitParAgain /\ [][NextParAgain]_vars

\* The candidates seen FAIL in the step that is running or has just
\* returned: tested by a worker of this step, or found FAIL in the cache.
ObservedFail ==
    { jobs[k].config : k \in { j \in DOMAIN jobs :
                                 jobs[j].loop = call /\ jobs[j].outcome = FAIL } }
    \cup { last.config : x \in { y \in {last} :
                                  /\ y.op = "cache" /\ y.outcome = FAIL
                                  /\ y.id.run = run } }

\* C28: under every interleaving of dispatcher and workers, a partition the
\* parallel reduce step returns is the partition of a candidate that was
\* seen FAIL during this very step, by the test of one of its workers or in
\* the cache: the fail index the dispatcher reads holds neither the index of
\* a test that did not fail nor one stored by a worker of an earlier step
\* after the index was reset to -1.
C28_ReturnedWasObservedFail ==
    (pc = "returned" /\ result.found) =>
        Flatten(result.next_subsets) \in ObservedFail

(***************************************************************************)
(* One parallel reduce step with a cache that may already hold a FAIL: the *)
(* cache object is given to CombinedParallelDD by its caller.              *)
(***************************************************************************)
\* The configs of the candidates of a step over the subsets s.
CandidateConfigs(s) ==
    { s[j] : j \in 1..Len(s) } \cup { Flatten(WithoutIndex(s, k)) : k \in 0..(Len(s) - 1) }

\* CombinedParallelDD(test, cache, proc_num) with the default iterator and
\* splitter and a tester that returns outcomes, at the entry of
\* _reduce_config in the first run: the cache is empty or holds the FAIL of
\* one candidate, which the tester then has answered before.
InitCancel ==
    /\ dd \in { d \in ParStrategies :
                  /\ d.cache.name = "config"
                  /\ d.config_iterator.subset_first
                  /\ d.config_iterator.subset_iterator = "forward" }
    /\ tester = Deterministic
    /\ \E len \in 2..NAtoms :
         /\ config = [ i \in 1..len |-> i ]
         /\ subsets = Split(dd.split, << config >>)
    /\ \/ root = EmptyRoot /\ known = << >>
       \/ \E c \in CandidateConfigs(subsets) :
            /\ root = CacheAdd(dd.cache, EmptyRoot, c, FAIL)
            /\ known = (c :> FAIL)
    /\ initial = config
    /\ complement_offset = 0
    /\ remS = IterStart(dd.config_iterator.subset_iterator, Len(subsets))
    /\ remC = IterStart(dd.config_iterator.complement_iterator, Len(subsets))
    /\ pc = "loop"
    /\ changed = FALSE
    /\ iter_cnt = 0
    /\ run = 0
    /\ tests_left = 0
    /\ expired = FALSE
    /\ result = None
    /\ call = 1
    /\ first = << >>
    /\ testCalls = 0
    /\ stopCalls = 0
    /\ hits = 0
    /\ smallest = << >>
    /\ container = << >>
    /\ test_builder = << >>
    /\ stored = << >>
    /\ cleared = FALSE
    /\ NoOthers
    /\ last_fail = << >>
    /\ ops = 0
    /\ jobs = << >>
    /\ fail_index = -1
    /\ shared_break = 0
    /\ last = [op |-> "init", config |-> << >>,
               id |-> [run |-> 0, dir |-> "none", index |-> 0], outcome |-> None]

SpecCancel == InitCancel /\ [][NextPar]_vars

\* The jobs for which a process was started.
Started(js) == { k \in DOMAIN js : js[k].at \notin {"pending", "dropped"} }

Executing == { k \in DOMAIN jobs : Running(jobs[k]) }

\* C31: at any time at most proc_num dispatched tests are executing, and a
\* worker is started only in a slot that no process of the loop holds (do()
\* waits while every slot is set).
C31_PoolCapacity ==
    /\ Cardinality(Executing) <= dd.proc_num
    /\ \A j, k \in DOMAIN jobs :
         (j # k /\ Live(jobs[j]) /\ Live(jobs[k]) /\ jobs[j].loop = jobs[k].loop)
            => jobs[j].slot # jobs[k].slot
    /\ pc = "start" => jobs[Len(jobs)].slot \in FreeSlots


(***************************************************************************)
(* The run loop as the splitters see it                                    *)
(*                                                                         *)
(* The run loop of __call__ with every outcome of _reduce_config a tester  *)
(* can produce: some subset fails, some complement fails, or nothing does. *)
(* The result of self._split(subsets) is kept in split_subsets before it   *)
(* replaces subsets, so that a state holds the partition the splitter was  *)
(* given and the one it returned.  The offset is kept twice, by the same   *)
(* steps: complement_offset as dd.py rescales it (integer division) and    *)
(* real_offset as abstract_dd.py does (real division), an exact fraction.  *)
(***************************************************************************)

NSplit == 6

\* ZellerSplit(n) and BalancedSplit(n) with n = 2, n = 3 and n = float('inf').
SplitObjects ==
    { [name |-> nm, inf |-> FALSE, n |-> f] :
        nm \in {"zeller", "balanced"}, f \in {2, 3} }
    \cup { [name |-> nm, inf |-> TRUE, n |-> 0] : nm \in {"zeller", "balanced"} }

\* complement_offset = (complement_offset * len(next_subsets)) / len(subsets)
\* with the offset left as it was.
RescaleReal_Unscaled(offset, next_len, len) == offset

\* complement_offset = (complement_offset * len(next_subsets)) / len(subsets)
\* of abstract_dd.py, on fractions.
RescaleReal(offset, next_len, len) ==
    [num |-> offset.num * next_len, den |-> offset.den * len]

\* (i + complement_offset) % n of dd.py, i the value of the iterator.
IntIndex(offset, i, n) == (i + offset) % n

\* int((i - n + complement_offset) % n) of combined_parallel_dd.py with a
\* real offset, i - n the value of the complement iterator: the real
\* remainder, truncated.
RealIndex(offset, i, n) ==
    ((i * offset.den + offset.num) % (n * offset.den)) \div offset.den

\* __call__ entered with config and one subset holding it all.
InitSplit ==
    /\ dd \in { [d EXCEPT !.split = s] :
                  d \in { e \in DefaultStrategies : e.cache.name = "config" },
                  s \in SplitObjects }
    /\ \E len \in 2..NSplit : config = [ i \in 1..len |-> i ]
    /\ initial = config
    /\ subsets = << config >>
    /\ split_subsets = << >>
    /\ complement_offset = 0
    /\ real_offset = [num |-> 0, den |-> 1]
    /\ changed = FALSE
    /\ pc = "run"
    /\ tester = Deterministic
    /\ known = << >>
    /\ iter_cnt = 0
    /\ run = 0
    /\ remS = {}
    /\ remC = {}
    /\ root = EmptyRoot
    /\ tests_left = 0
    /\ expired = FALSE
    /\ result = None
    /\ call = 1
    /\ first = << >>
    /\ testCalls = 0
    /\ stopCalls = 0
    /\ hits = 0
    /\ smallest = << >>
    /\ container = << >>
    /\ test_builder = << >>
    /\ stored = << >>
    /\ cleared = FALSE
    /\ last_fail = << >>
    /\ ops = 0
    /\ jobs = << >>
    /\ fail_index = -1
    /\ shared_break = 0
    /\ lock = 0
    /\ slots = << >>
    /\ yielded = << >>
    /\ last = [op |-> "init", config |-> << >>,
               id |-> [run |-> 0, dir |-> "none", index |-> 0], outcome |-> None]

\* What the steps of this loop leave alone.
splitAside == << dd, tester, known, initial, iter_cnt, remS, remC, root,
                 tests_left, expired, result, call, first, testCalls,
                 stopCalls, hits, smallest, container, test_builder, stored,
                 cleared, last_fail, ops, jobs, fail_index, shared_break,
                 lock, slots, yielded >>

SplitMark(op, cfg) ==
    [op |-> op, config |-> cfg,
     id |-> [run |-> run, dir |-> "none", index |-> 0], outcome |-> None]

\* Lines 78-80: subsets holds one subset, self._split(subsets) is evaluated.
SplitOne ==
    /\ pc = "run"
    /\ Len(config) >= 2
    /\ Len(subsets) < 2
    /\ split_subsets' = Split(dd.split, subsets)
    /\ pc' = "assign"
    /\ last' = SplitMark("split", config)
    /\ UNCHANGED << splitAside, config, subsets, complement_offset, real_offset,
                    changed, run >>

\* subsets = next_subsets (line 107), subsets = self._split(subsets) (line 80)
SplitAssign ==
    /\ pc = "assign"
    /\ subsets' = split_subsets
    /\ pc' = "run"
    /\ last' = SplitMark("assign", config)
    /\ UNCHANGED << splitAside, config, split_subsets, complement_offset,
                    real_offset, changed, run >>

\* _reduce_config returned ([subsets[i]], 0): lines 96-100.
SubsetFails ==
    /\ pc = "run"
    /\ Len(config) >= 2
    /\ Len(subsets) >= 2
    /\ \E i \in 1..Len(subsets) :
         /\ subsets' = << subsets[i] >>
         /\ config' = subsets[i]
    /\ complement_offset' = 0
    /\ real_offset' = [num |-> 0, den |-> 1]
    /\ changed' = TRUE
    /\ run' = run + 1
    /\ last' = SplitMark("subset", config)
    /\ UNCHANGED << splitAside, split_subsets, pc >>

\* _reduce_config returned for the value i of the complement iterator: the
\* subsets without the one at the index computed from the offset, and that
\* index as the next offset.
ComplementFails ==
    /\ pc = "run"
    /\ Len(config) >= 2
    /\ Len(subsets) >= 2
    /\ \E i \in 0..(Len(subsets) - 1) :
         LET n == Len(subsets) IN
         /\ subsets' = WithoutIndex(subsets, IntIndex(complement_offset, i, n))
         /\ config' = Flatten(subsets')
         /\ complement_offset' = IntIndex(complement_offset, i, n)
         /\ real_offset' = [num |-> RealIndex(real_offset, i, n), den |-> 1]
    /\ changed' = TRUE
    /\ run' = run + 1
    /\ last' = SplitMark("complement", config)
    /\ UNCHANGED << splitAside, split_subsets, pc >>

\* _reduce_config returned (None, complement_offset): lines 102-113, the
\* granularity is increased or the iteration ends.
NothingFails ==
    /\ pc = "run"
    /\ Len(config) >= 2
    /\ Len(subsets) >= 2
    /\ IF Len(subsets) < Len(config)
       THEN /\ split_subsets' = Split(dd.split, subsets)
            /\ complement_offset' =
                 RescaleOffset(complement_offset, Len(split_subsets'), Len(subsets))
            /\ real_offset' =
                 RescaleReal(real_offset, Len(split_subsets'), Len(subsets))
            /\ pc' = "assign"
            /\ run' = run + 1
            /\ last' = SplitMark("split", config)
       ELSE /\ pc' = "done"
            /\ last' = SplitMark("break", config)
            /\ UNCHANGED << split_subsets, complement_offset, real_offset, run >>
    /\ UNCHANGED << splitAside, config, subsets, changed >>

\* Lines 73-76: a config of one atom ends the iteration.
SingleAtom ==
    /\ pc = "run"
    /\ Len(config) < 2
    /\ pc' = "done"
    /\ last' = SplitMark("break", config)
    /\ UNCHANGED << splitAside, config, subsets, split_subsets,
                    complement_offset, real_offset, changed, run >>

\* Lines 115-116 and 64-69: dd-star starts the next iteration if the last
\* one has reduced.
NextIteration ==
    /\ pc = "done"
    /\ dd.dd_star
    /\ changed
    /\ subsets' = << config >>
    /\ complement_offset' = 0
    /\ real_offset' = [num |-> 0, den |-> 1]
    /\ changed' = FALSE
    /\ run' = 0
    /\ pc' = "run"
    /\ last' = SplitMark("iteration", config)
    /\ UNCHANGED << splitAside, config, split_subsets >>

NextSplit ==
    \/ SplitOne \/ SplitAssign \/ SubsetFails \/ ComplementFails
    \/ NothingFails \/ SingleAtom \/ NextIteration

SpecSplit == InitSplit /\ [][NextSplit]_vars


(***************************************************************************)
(* Properties of the splitters and of the offset                           *)
(***************************************************************************)

\* self._split(subsets) has returned and its result has not replaced subsets
\* yet: subsets is what the splitter was given, split_subsets what it returned.
Splitted == pc = "assign"

\* Every atom of chunk is an atom of within.
Inside(chunk, within) ==
    \A a \in 1..Len(chunk) : \E b \in 1..Len(within) : within[b] = chunk[a]

\* Every chunk of fine lies within a single chunk of coarse.
Refines(fine, coarse) ==
    \A c \in 1..Len(fine) : \E s \in 1..Len(coarse) : Inside(fine[c], coarse[s])

\* The chunks are single atoms.
Singletons(chunks) == \A c \in 1..Len(chunks) : Len(chunks[c]) = 1

\* C34: with the offset rescaled by real division the index of the subset a
\* complement candidate leaves out is, for every value of the complement
\* iterator and in every reduce step, the one integer division gives; the
\* two offsets differ by less than one, so the same candidates are
\* evaluated in the same order and the same subsets are returned.
C34_RealOffsetSameIndex ==
    /\ (pc = "run" /\ Len(subsets) >= 2) =>
         \A i \in 0..(Len(subsets) - 1) :
            RealIndex(real_offset, i, Len(subsets))
              = IntIndex(complement_offset, i, Len(subsets))
    /\ complement_offset = real_offset.num \div real_offset.den

\* A reduce step is entered with an offset that real division has left
\* fractional and integer division has rounded down.
C34_Witness ==
    /\ pc = "run"
    /\ Len(subsets) >= 3
    /\ real_offset.num % real_offset.den # 0
    /\ complement_offset >= 1

\* C36: a splitter of factor n >= 2 or +inf, given k chunks that hold L >= 2
\* atoms, returns exactly min(L, k * n) chunks (L ones for +inf), none of
\* them empty, whose concatenation is the flattened input; so there are more
\* chunks than before when k < L, and single atoms when the count is L.
C36_SplitCountAndCover ==
    Splitted =>
        LET k == Len(subsets)
            L == Len(Flatten(subsets))
            m == Len(split_subsets)
        IN  /\ L >= 2
            /\ m = (IF dd.split.inf THEN L ELSE Min(L, k * dd.split.n))
            /\ \A c \in 1..m : Len(split_subsets[c]) >= 1
            /\ Flatten(split_subsets) = Flatten(subsets)
            /\ k < L => m > k
            /\ m = L => Singletons(split_subsets)
            /\ dd.split.inf => Singletons(split_subsets)

\* A split of an uneven partition whose count is capped by the length, and
\* a split of factor 3 whose count is not.
C36_Witness ==
    /\ Splitted
    /\ Len(subsets) = 3
    /\ Len(config) = 5
    /\ Len(split_subsets) = 5
    /\ \E c \in 1..Len(subsets) : Len(subsets[c]) >= 2

\* C37: the sizes of the chunks a Zeller split returns never decrease from
\* the first chunk to the last.
C37_ZellerMonotone ==
    (Splitted /\ dd.split.name = "zeller") =>
        \A c \in 1..(Len(split_subsets) - 1) :
            Len(split_subsets[c]) <= Len(split_subsets[c + 1])

\* A Zeller split into four chunks whose sizes do increase.
C37_Witness ==
    /\ Splitted
    /\ dd.split.name = "zeller"
    /\ Len(split_subsets) = 4
    /\ Len(split_subsets[1]) < Len(split_subsets[4])

\* C38 as stated: every chunk the splitter returns lies within a single
\* chunk of the partition it was given.
C38_Refinement_AsStated ==
    Splitted => Refines(split_subsets, subsets)

\* C38: the partition a splitter returns is finer in granularity.  It holds
\* the same atoms in the same order in more chunks, none of them empty or
\* longer than the longest chunk of the input, and it refines the input
\* when its chunks are single atoms.
C38_FinerGranularity ==
    Splitted =>
        /\ Flatten(split_subsets) = Flatten(subsets)
        /\ Len(split_subsets) > Len(subsets)
        /\ \A c \in 1..Len(split_subsets) :
             /\ Len(split_subsets[c]) >= 1
             /\ \E s \in 1..Len(subsets) : Len(split_subsets[c]) <= Len(subsets[s])
        /\ Singletons(split_subsets) => Refines(split_subsets, subsets)

\* The splitter returned a chunk that straddles two chunks of its input.
C38_Witness ==
    /\ Splitted
    /\ ~Refines(split_subsets, subsets)
    /\ Len(subsets) = 2


(***************************************************************************)
(* A config iterator, a shared cache and a parallel loop on their own      *)
(***************************************************************************)

\* The state of a DD call that an iterator, a shared cache or a loop used
\* on its own does not have.
rest == << tester, known, initial, complement_offset, changed, iter_cnt, run,
           tests_left, expired, result, call, first, testCalls, stopCalls,
           hits, smallest, container, test_builder, stored, cleared,
           last_fail, ops, fail_index, split_subsets, real_offset >>

NoRest ==
    /\ tester = Deterministic
    /\ known = << >>
    /\ initial = << >>
    /\ complement_offset = 0
    /\ changed = FALSE
    /\ iter_cnt = 0
    /\ run = 0
    /\ tests_left = 0
    /\ expired = FALSE
    /\ result = None
    /\ call = 1
    /\ first = << >>
    /\ testCalls = 0
    /\ stopCalls = 0
    /\ hits = 0
    /\ smallest = << >>
    /\ container = << >>
    /\ test_builder = << >>
    /\ stored = << >>
    /\ cleared = FALSE
    /\ last_fail = << >>
    /\ ops = 0
    /\ fail_index = -1
    /\ split_subsets = << >>
    /\ real_offset = [num |-> 0, den |-> 1]

NIter == 3

\* self._config_iterator(n) is called, n = len(subsets): a CombinedIterator
\* of any two registered iterators, in either order, over 1..NIter subsets.
InitIter ==
    /\ dd \in { [d EXCEPT !.config_iterator = it] : d \in DefaultDD, it \in Iterators }
    /\ \E n \in 1..NIter :
         /\ config = [ i \in 1..n |-> i ]
         /\ subsets = [ i \in 1..n |-> << i >> ]
    /\ remS = IterStart(dd.config_iterator.subset_iterator, Len(subsets))
    /\ remC = IterStart(dd.config_iterator.complement_iterator, Len(subsets))
    /\ yielded = << >>
    /\ pc = "iterate"
    /\ root = EmptyRoot
    /\ jobs = << >>
    /\ shared_break = 0
    /\ lock = 0
    /\ slots = << >>
    /\ last = [op |-> "init", config |-> << >>,
               id |-> [run |-> 0, dir |-> "none", index |-> 0], outcome |-> None]
    /\ NoRest

\* The generator yields its next value.
IterYield ==
    /\ pc = "iterate"
    /\ \E y \in CombinedNext(dd.config_iterator, remS, remC) :
         /\ yielded' = Append(yielded, y.value)
         /\ remS' = y.remS
         /\ remC' = y.remC
    /\ UNCHANGED << rest, dd, config, subsets, pc, root, jobs, shared_break,
                    lock, slots, last >>

\* The generator is exhausted: the for loop over it ends.
IterStop ==
    /\ pc = "iterate"
    /\ CombinedNext(dd.config_iterator, remS, remC) = {}
    /\ pc' = "exhausted"
    /\ UNCHANGED << rest, dd, config, subsets, remS, remC, yielded, root, jobs,
                    shared_break, lock, slots, last >>

NextIter == IterYield \/ IterStop

SpecIter == InitIter /\ [][NextIter]_vars

\* The positions of yielded that hold subset values, and complement values.
SubsetYields == { j \in 1..Len(yielded) : yielded[j] >= 0 }
ComplementYields == { j \in 1..Len(yielded) : yielded[j] < 0 }

\* C39: a CombinedIterator over n subsets yields no value twice; a skip
\* iterator contributes no value for its side; with subset_first every
\* subset value comes before every complement value, otherwise after; and
\* when it is exhausted, a side that is not skipped has yielded each of
\* 0..n-1 (subsets), each of -1..-n (complements, -(i+1) removing subset i).
C39_CombinedIteratorYields ==
    LET n == Len(subsets)
        it == dd.config_iterator
    IN  /\ \A a, b \in 1..Len(yielded) : a # b => yielded[a] # yielded[b]
        /\ \A a \in 1..Len(yielded) : yielded[a] \in (-n)..(n - 1)
        /\ it.subset_iterator = "skip" => SubsetYields = {}
        /\ it.complement_iterator = "skip" => ComplementYields = {}
        /\ \A a \in SubsetYields, b \in ComplementYields :
             IF it.subset_first THEN a < b ELSE b < a
        /\ pc = "exhausted" =>
             /\ it.subset_iterator # "skip" =>
                  { yielded[a] : a \in SubsetYields } = 0..(n - 1)
             /\ it.complement_iterator # "skip" =>
                  { -yielded[a] - 1 : a \in ComplementYields } = 0..(n - 1)

\* A complement-first iterator of a random and a backward iterator is
\* exhausted after 2n values, the complement values not in increasing order.
C39_Witness ==
    /\ pc = "exhausted"
    /\ ~dd.config_iterator.subset_first
    /\ dd.config_iterator.complement_iterator = "random"
    /\ dd.config_iterator.subset_iterator = "backward"
    /\ Len(subsets) = 3
    /\ Len(yielded) = 6
    /\ yielded[1] = -2
    /\ yielded[4] = 2


(***************************************************************************)
(* The configs the sequential engine gives to the cache and the tester     *)
(***************************************************************************)

\* The last step looked config up in the cache (a hit, or a miss followed
\* by the stop check and the test), the one before it being `last`.
LooksUp == pc = "reduce" /\ last'.op \in {"cache", "stop", "test"}

\* The configs that have tested FAIL in this call.
TestedFail == { c \in DOMAIN known : known[c] = FAIL }

\* C35: once a config of length L has tested FAIL, every config that is
\* looked up in the cache or tested and added to it later in the same call,
\* its later iterations included, is strictly shorter than L: the entries
\* evict-after-fail removes, those longer than L, are never looked up again.
C35_LaterConfigsShorter ==
    [][ LooksUp => \A c \in TestedFail : Len(last'.config) < Len(c) ]_vars

\* In the second iteration of a call a candidate is looked up after a
\* candidate of two atoms has tested FAIL in the first.
C35_Witness ==
    /\ iter_cnt >= 1
    /\ last.op \in {"cache", "test"}
    /\ Len(last.config) = 1
    /\ dd.cache.name = "config"
    /\ dd.cache.evict_after_fail
    /\ \E c \in TestedFail : Len(c) = 2 /\ Len(c) < Len(initial)

\* C40: called on a config that is not empty, the engine never calls the
\* tester on the empty config and never looks it up in or adds it to the
\* cache: every candidate holds at least one atom.
C40_NoEmptyConfig ==
    Len(initial) >= 1 =>
        /\ << >> \notin DOMAIN known
        /\ last.op \in {"assert", "cache", "stop", "test"} => Len(last.config) >= 1
        /\ ConfigCacheLookup(root, << >>) = None

\* A complement of a single atom was tested.
C40_Witness ==
    /\ Len(initial) >= 2
    /\ last.op = "test"
    /\ last.id.dir = "c"
    /\ Len(last.config) = 1


(***************************************************************************)
(* The shared cache                                                        *)
(*                                                                         *)
(* The cache of a parallel DD object is a SharedCache around a ConfigCache:*)
(* every method of the cache is reached through a SharedCacheTrampoline    *)
(* that takes SharedCache._lock for the time of the call.  The callers are *)
(* the dispatcher (caller 1: lookup, and clear and set_test_builder        *)
(* between reductions) and the workers (add).  A method of the wrapped     *)
(* cache is not atomic: it reads the trie (seen) and then writes it.       *)
(* jobs holds one record per caller: [op, config, outcome, at, seen, ret,  *)
(* expect], at being where the caller is in its call; stored is the plain  *)
(* map the calls give when applied one after the other, in the order in    *)
(* which they took the lock, and expect what lookup returns on it.         *)
(***************************************************************************)

\* The dispatcher and the workers of a loop of NProc slots.
NCallers == NProc + 1

NCalls == 3

SharedConfigs == { << 1 >>, << 1, 2 >> }

\* with self._shared_cache._lock, entered whether or not the lock is held
Acquirable_Unlocked(l) == TRUE

\* with self._shared_cache._lock: entered when nobody holds the lock
Acquirable(l) == l = 0

NotCalling ==
    [op |-> "none", config |-> << >>, outcome |-> None, at |-> "idle",
     seen |-> EmptyRoot, ret |-> None, expect |-> None]

\* shared_cache_decorator(ConfigCache)(...): an empty cache, nobody calling.
InitShared ==
    /\ dd \in { [d EXCEPT !.cache = c] :
                  d \in DefaultDD, c \in { x \in Caches : x.name = "config" } }
    /\ root = EmptyRoot
    /\ stored = << >>
    /\ lock = 0
    /\ jobs = [ k \in 1..NCallers |-> NotCalling ]
    /\ ops = 0
    /\ pc = "shared"
    /\ tester = Deterministic
    /\ known = << >>
    /\ config = << >>
    /\ initial = << >>
    /\ subsets = << >>
    /\ complement_offset = 0
    /\ changed = FALSE
    /\ iter_cnt = 0
    /\ run = 0
    /\ remS = {}
    /\ remC = {}
    /\ tests_left = 0
    /\ expired = FALSE
    /\ result = None
    /\ call = 1
    /\ first = << >>
    /\ testCalls = 0
    /\ stopCalls = 0
    /\ hits = 0
    /\ smallest = << >>
    /\ container = << >>
    /\ test_builder = << >>
    /\ cleared = FALSE
    /\ last_fail = << >>
    /\ fail_index = -1
    /\ shared_break = 0
    /\ split_subsets = << >>
    /\ real_offset = [num |-> 0, den |-> 1]
    /\ slots = << >>
    /\ yielded = << >>
    /\ last = [op |-> "init", config |-> << >>,
               id |-> [run |-> 0, dir |-> "none", index |-> 0], outcome |-> None]

\* What a call on the shared cache leaves alone.
sharedAside == << dd, tester, known, pc, config, initial, subsets,
                  complement_offset, changed, iter_cnt, run, remS, remC,
                  tests_left, expired, result, call, first, testCalls,
                  stopCalls, hits, smallest, container, test_builder, cleared,
                  last_fail, fail_index, shared_break, split_subsets,
                  real_offset, slots, yielded, last >>

\* A caller calls a method of the shared cache: SharedCacheTrampoline.__call__
\* is entered.
SharedCall(k) ==
    /\ ops < NCalls
    /\ jobs[k].at \in {"idle", "returned"}
    /\ \E c \in SharedConfigs, o \in Outcome,
          m \in IF k = 1 THEN {"lookup", "clear", "set_test_builder"} ELSE {"add"} :
         jobs' = [jobs EXCEPT ![k] =
                    [NotCalling EXCEPT !.op = m, !.at = "waiting",
                       !.config = IF m \in {"lookup", "add"} THEN c ELSE << >>,
                       !.outcome = IF m = "add" THEN o ELSE None]]
    /\ ops' = ops + 1
    /\ UNCHANGED << sharedAside, root, stored, lock >>

\* with self._shared_cache._lock: the caller takes the lock.  The calls
\* take effect on the plain map in this order.
SharedAcquire(k) ==
    /\ jobs[k].at = "waiting"
    /\ Acquirable(lock)
    /\ lock' = k
    /\ stored' = CASE jobs[k].op = "add" ->
                        StoredAdd(dd.cache, stored, jobs[k].config, jobs[k].outcome)
                   [] jobs[k].op = "clear" -> << >>
                   [] OTHER -> stored
    /\ jobs' = [jobs EXCEPT ![k] =
                  [@ EXCEPT !.at = "holding",
                            !.expect = IF jobs[k].op = "lookup"
                                       THEN (IF jobs[k].config \in DOMAIN stored
                                             THEN stored[jobs[k].config] ELSE None)
                                       ELSE None]]
    /\ UNCHANGED << sharedAside, root, ops >>

\* getattr(self._shared_cache._cache, self._fn)(*args): the method of the
\* wrapped cache starts from the trie as it is.
SharedEnter(k) ==
    /\ jobs[k].at = "holding"
    /\ jobs' = [jobs EXCEPT ![k] = [@ EXCEPT !.at = "read", !.seen = root]]
    /\ UNCHANGED << sharedAside, root, stored, lock, ops >>

\* The method of the wrapped cache ends: it has changed the trie it started
\* from and has its return value.
SharedFinish(k) ==
    /\ jobs[k].at = "read"
    /\ root' = CASE jobs[k].op = "add" ->
                      ConfigCacheAdd(dd.cache, jobs[k].seen, jobs[k].config,
                                     jobs[k].outcome)
                 [] jobs[k].op = "clear" -> EmptyRoot
                 [] OTHER -> root
    /\ jobs' = [jobs EXCEPT ![k] =
                  [@ EXCEPT !.at = "wrote",
                            !.ret = IF jobs[k].op = "lookup"
                                    THEN ConfigCacheLookup(jobs[k].seen, jobs[k].config)
                                    ELSE None]]
    /\ UNCHANGED << sharedAside, stored, lock, ops >>

\* The with statement is left: the lock is released and the call returns.
SharedRelease(k) ==
    /\ jobs[k].at = "wrote"
    /\ lock' = IF lock = k THEN 0 ELSE lock
    /\ jobs' = [jobs EXCEPT ![k].at = "returned"]
    /\ UNCHANGED << sharedAside, root, stored, ops >>

NextShared ==
    \E k \in 1..NCallers :
        \/ SharedCall(k) \/ SharedAcquire(k) \/ SharedEnter(k)
        \/ SharedFinish(k) \/ SharedRelease(k)

SpecShared == InitShared /\ [][NextShared]_vars

\* The caller is within the method of the wrapped cache.
InCache(k) == jobs[k].at \in {"holding", "read", "wrote"}

\* C32: every call on the shared cache runs the method of the wrapped cache
\* while it holds the one lock of the wrapper, so the calls of the
\* dispatcher and of the workers never overlap; every call returns what the
\* wrapped cache returns for the calls made so far one after the other, and
\* with no call in progress the cache holds what these calls leave.
C32_SharedCacheSerialized ==
    /\ \A j, k \in 1..NCallers : (InCache(j) /\ InCache(k)) => j = k
    /\ \A k \in 1..NCallers : InCache(k) => lock = k
    /\ \A k \in 1..NCallers :
         jobs[k].at \in {"wrote", "returned"} => jobs[k].ret = jobs[k].expect
    /\ lock = 0 =>
         \A c \in SharedConfigs :
            ConfigCacheLookup(root, c)
              = (IF c \in DOMAIN stored THEN stored[c] ELSE None)

\* A worker and a lookup of the dispatcher wait for the lock while another
\* worker is within add.
C32_Witness ==
    /\ jobs[2].at = "read"
    /\ jobs[2].op = "add"
    /\ jobs[3].at = "waiting"
    /\ jobs[3].op = "add"
    /\ jobs[1].at = "waiting"
    /\ jobs[1].op = "lookup"
    /\ jobs[1].config = jobs[2].config


(***************************************************************************)
(* The parallel loop on its own                                            *)
(*                                                                         *)
(* One Loop object, its caller calling do() up to NDo times and then       *)
(* join().  slots[i] is [slot, proc]: Loop._slots[i], which the worker of  *)
(* the slot sets to 0 itself, and Loop._procs[i], the index in jobs of the *)
(* process or 0 for None.  jobs[k] is [slot, at, signalled], at being      *)
(* "pending" (do() has found the slot), "running" (started, in target),    *)
(* "returned" (target is over), "cleared" (shared_slots[i] = 0 done),      *)
(* "exited" (notified and gone) or "killed".  The dispatcher waits on the  *)
(* condition in two steps, as a notification is lost when it is issued     *)
(* before the wait has begun.                                              *)
(***************************************************************************)

NDo == 2

\* Loop._timeout
timeout == 1

\* self._lock.wait(self._timeout) with a timeout of None: it returns only
\* when notified.
TimedWait_Forever(t) == FALSE

\* self._lock.wait(self._timeout): the wait ends by itself after t seconds.
TimedWait(t) == t > 0

\* proc.is_alive()
is_alive(job) == job.at \in {"running", "returned", "cleared"}

\* Loop._cleanup_slots with the slots of dead processes left as they are.
cleanup_slots_KeepsDead(sl, js) == sl

\* Loop._cleanup_slots: a slot that is set and whose process is not alive is
\* freed, and the process of a slot that is not set is forgotten.
cleanup_slots(sl, js) ==
    [ i \in DOMAIN sl |->
        IF sl[i].slot = 1 /\ is_alive(js[sl[i].proc]) THEN sl[i]
        ELSE [slot |-> 0, proc |-> 0] ]

\* Loop._abort: SIGTERM to the process of every slot that is set, and every
\* slot freed; a process do() was about to start is not started.
LoopAbortJobs(sl, js) ==
    [ k \in DOMAIN js |->
        IF \E i \in DOMAIN sl : sl[i].slot = 1 /\ sl[i].proc = k
        THEN [js[k] EXCEPT !.signalled = TRUE]
        ELSE IF js[k].at = "pending" THEN [js[k] EXCEPT !.at = "dropped"]
        ELSE js[k] ]

LoopAbortSlots(sl) == [ i \in DOMAIN sl |-> [slot |-> 0, proc |-> 0] ]

\* Loop.__init__
InitLoop ==
    /\ dd \in { d \in ParStrategies :
                  /\ d.cache \in DefaultCaches /\ d.cache.name = "config"
                  /\ d.config_iterator.subset_first
                  /\ d.config_iterator.subset_iterator = "forward" }
    /\ slots = [ i \in 1..dd.proc_num |-> [slot |-> 0, proc |-> 0] ]
    /\ jobs = << >>
    /\ shared_break = 0
    /\ pc = "idle"
    /\ config = << >>
    /\ subsets = << >>
    /\ remS = {}
    /\ remC = {}
    /\ root = EmptyRoot
    /\ lock = 0
    /\ yielded = << >>
    /\ last = [op |-> "init", config |-> << >>,
               id |-> [run |-> 0, dir |-> "none", index |-> 0], outcome |-> None]
    /\ NoRest

\* What the loop leaves alone.
loopAside == << rest, dd, config, subsets, remS, remC, root, lock, yielded, last >>

\* do() is entered (lines 132-135): a broken loop is aborted and do()
\* returns False, after which the caller goes to join().
CallDo ==
    /\ pc = "idle"
    /\ Len(jobs) < NDo
    /\ IF Broken(shared_break)
       THEN /\ jobs' = LoopAbortJobs(slots, jobs)
            /\ slots' = LoopAbortSlots(slots)
            /\ pc' = "refused"
       ELSE /\ pc' = "do_loop"
            /\ UNCHANGED << jobs, slots >>
    /\ UNCHANGED << loopAside, shared_break >>

\* Line 139, the CPU utilization above max_utilization: go to wait.
DoCheckBusy ==
    /\ pc = "do_loop"
    /\ pc' = "do_towait"
    /\ UNCHANGED << loopAside, jobs, slots, shared_break >>

\* Lines 139-143, the CPU utilization not above max_utilization: the slots
\* are cleaned up and the first free one is taken, if there is one.
DoCheckOk ==
    /\ pc = "do_loop"
    /\ slots' = cleanup_slots(slots, jobs)
    /\ LET free == { i \in DOMAIN slots : slots'[i].slot = 0 }
       IN  IF free # {}
           THEN /\ jobs' = Append(jobs, [slot |-> SetMin(free), at |-> "pending",
                                         signalled |-> FALSE])
                /\ pc' = "do_found"
           ELSE /\ jobs' = jobs
                /\ pc' = "do_towait"
    /\ UNCHANGED << loopAside, shared_break >>

\* with self._lock: self._lock.wait(self._timeout) is entered.
EnterWait ==
    /\ pc \in {"do_towait", "join_towait"}
    /\ pc' = IF pc = "do_towait" THEN "do_wait" ELSE "join_wait"
    /\ UNCHANGED << loopAside, jobs, slots, shared_break >>

\* The wait ends by its timeout.
WaitTimeout ==
    /\ pc \in {"do_wait", "join_wait"}
    /\ TimedWait(timeout)
    /\ pc' = IF pc = "do_wait" THEN "do_loop" ELSE "join_woken"
    /\ UNCHANGED << loopAside, jobs, slots, shared_break >>

\* Lines 147-152: a broken loop is aborted and do() returns False;
\* otherwise the process is started.
DoStart ==
    /\ pc = "do_found"
    /\ IF Broken(shared_break)
       THEN /\ jobs' = LoopAbortJobs(slots, jobs)
            /\ slots' = LoopAbortSlots(slots)
            /\ pc' = "refused"
       ELSE /\ jobs' = [jobs EXCEPT ![Len(jobs)].at = "running"]
            /\ slots' = slots
            /\ pc' = "do_started"
    /\ UNCHANGED << loopAside, shared_break >>

\* Lines 153-155: the slot is marked busy and do() returns True.
DoMark ==
    /\ pc = "do_started"
    /\ slots' = [slots EXCEPT ![jobs[Len(jobs)].slot] =
                   [slot |-> 1, proc |-> Len(jobs)]]
    /\ pc' = "idle"
    /\ UNCHANGED << loopAside, jobs, shared_break >>

\* join() is entered (lines 161-163).
CallJoin ==
    /\ pc \in {"idle", "refused"}
    /\ IF Broken(shared_break)
       THEN /\ jobs' = LoopAbortJobs(slots, jobs)
            /\ slots' = LoopAbortSlots(slots)
            /\ pc' = "joined"
       ELSE /\ pc' = "join_loop"
            /\ UNCHANGED << jobs, slots >>
    /\ UNCHANGED << loopAside, shared_break >>

\* Lines 166-169: join() returns if no slot is set after the cleanup.
JoinCheck ==
    /\ pc = "join_loop"
    /\ slots' = cleanup_slots(slots, jobs)
    /\ pc' = IF \A i \in DOMAIN slots : slots'[i].slot = 0
             THEN "joined" ELSE "join_towait"
    /\ UNCHANGED << loopAside, jobs, shared_break >>

\* Lines 174-175: after the wait a broken loop is aborted.
JoinWoken ==
    /\ pc = "join_woken"
    /\ IF Broken(shared_break)
       THEN /\ jobs' = LoopAbortJobs(slots, jobs)
            /\ slots' = LoopAbortSlots(slots)
       ELSE UNCHANGED << jobs, slots >>
    /\ pc' = "join_loop"
    /\ UNCHANGED << loopAside, shared_break >>

\* loop_body, lines 41-46: target returns, and the break flag is set if it
\* returned False or raised.
LoopWorkerRun(k) ==
    /\ jobs[k].at = "running"
    /\ jobs' = [jobs EXCEPT ![k].at = "returned"]
    /\ \E b \in {0, 1} : shared_break' = Max(shared_break, b)
    /\ UNCHANGED << loopAside, slots, pc >>

\* shared_slots[i] = 0
LoopWorkerClear(k) ==
    /\ jobs[k].at = "returned"
    /\ jobs' = [jobs EXCEPT ![k].at = "cleared"]
    /\ slots' = [slots EXCEPT ![jobs[k].slot].slot = 0]
    /\ UNCHANGED << loopAside, shared_break, pc >>

\* with shared_lock: shared_lock.notify(), and the process ends: a
\* dispatcher that is waiting wakes up, otherwise nothing happens.
LoopWorkerNotify(k) ==
    /\ jobs[k].at = "cleared"
    /\ jobs' = [jobs EXCEPT ![k].at = "exited"]
    /\ pc' = CASE pc = "do_wait" -> "do_loop"
               [] pc = "join_wait" -> "join_woken"
               [] OTHER -> pc
    /\ UNCHANGED << loopAside, slots, shared_break >>

\* SIGTERM is delivered.
LoopWorkerKilled(k) ==
    /\ jobs[k].signalled
    /\ is_alive(jobs[k])
    /\ jobs' = [jobs EXCEPT ![k].at = "killed"]
    /\ UNCHANGED << loopAside, slots, shared_break, pc >>

LoopWorker(k) ==
    /\ k \in DOMAIN jobs
    /\ \/ LoopWorkerRun(k) \/ LoopWorkerClear(k) \/ LoopWorkerNotify(k)
       \/ LoopWorkerKilled(k)

\* The steps of do() and join() that are taken whenever they can be.
LoopDispatch ==
    \/ CallDo \/ CallJoin \/ EnterWait \/ DoStart \/ DoMark \/ JoinCheck
    \/ JoinWoken

NextLoop ==
    \/ LoopDispatch \/ DoCheckBusy \/ DoCheckOk \/ WaitTimeout
    \/ \E k \in 1..NDo : LoopWorker(k)

SpecLoop == InitLoop /\ [][NextLoop]_vars

\* The loop is let run: the dispatcher and the started processes are
\* scheduled, time passes while the dispatcher waits, every call of target
\* terminates, and the CPU utilization is again and again found at or below
\* max_utilization.
FairLoop ==
    /\ SpecLoop
    /\ WF_vars(LoopDispatch)
    /\ WF_vars(WaitTimeout)
    /\ SF_vars(DoCheckOk)
    /\ \A k \in 1..NDo : WF_vars(LoopWorker(k))

\* do() or join() is being executed.
InLoopCall == pc \notin {"idle", "refused", "joined"}

\* C33: every call of do() and of join() returns, also when the
\* notification of a worker is issued while the dispatcher is not waiting,
\* and when a worker has set its slot to 0 before do() sets it to 1.
C33_DoAndJoinReturn ==
    /\ InLoopCall ~> ~InLoopCall
    /\ <>(pc = "joined")

\* join() waits on the condition when every process has exited: all the
\* notifications were issued before the wait began.
C33_Witness ==
    /\ pc = "join_wait"
    /\ Len(jobs) >= 2
    /\ \A k \in DOMAIN jobs : jobs[k].at = "exited"
    /\ shared_break = 0

=============================================================================
